---- MODULE Spec2Model ----
(***************************************************************************)
(* instance-chart: peer discovery over UDP multicast.                      *)
(*                                                                         *)
(* Every chart (src/src/chart.rs) owns a map Id -> Entry, a broadcast      *)
(* channel announcing first-time insertions, and a socket.  maintain       *)
(* (src/src/discovery.rs) spawns two tasks per chart: the receiver         *)
(* (handle_incoming) and the broadcaster (broadcast_periodically).         *)
(*                                                                         *)
(* The specifications share the variables:                                 *)
(*   Spec       one chart in an arbitrary environment (foreign datagrams,  *)
(*              user calls, subscriptions)                                  *)
(*   TaskSpec   one chart, the life cycle of maintain and its two tasks    *)
(*   NetSpec    NPeers charts on one network, with fairness                *)
(*   TimeSpec   one chart on the clock (the interval of the broadcasts)    *)
(*   WaitSpec   one chart and a call of found_everyone / found_majority    *)
(*   GrowSpec   Spec without forget                                        *)
(*   LookupSpec one chart and the calls that read it                       *)
(*   BuildSpec  the builder and open_socket                                *)
(*   ChanSpec   one chart and the subscribers of its notifications         *)
(*   CastSpec   a chart built on a port of choice and its broadcaster      *)
(*   SnapSpec   one chart and a caller that subscribes and takes a snapshot*)
(*   LockSpec   one chart with the mutex of its map step by step           *)
(***************************************************************************)
EXTENDS Integers, Sequences, FiniteSets, TLC

(***************************************************************************)
(* Bounds of the model.                                                    *)
(***************************************************************************)
NPeers == 2      \* charts on the network, ids 1..NPeers
N == 2           \* const generic N: elements of a payload
MaxSubs == 1     \* Notify handles alive at once, per chart
MaxLag == 1      \* the lag counter of a subscription saturates here

Peers == 1..NPeers
Headers == {7, 8}
DEFAULT_PORT == 8080
\* the multicast group 224.0.0.251, as a host number
multiaddr == 224
SubIds == 1..MaxSubs

\* u8::MAX, the capacity finish asks the notification channel for (scaled
\* down to two bits: all ones, one less than a power of two)
u8_MAX == 3

\* (mutant) a channel of exactly the capacity asked for
next_power_of_two_exact(n) == n

\* usize::next_power_of_two: the least power of two that is n or more
next_power_of_two(n) == CHOOSE c \in n..(2 * n) : \E k \in 0..n : c = 2^k

\* broadcast::channel(capacity) rounds the capacity up to a power of two:
\* the values the channel holds for a receiver
ChanCap == next_power_of_two(u8_MAX)

(***************************************************************************)
(* Addresses, payloads and the wire format.                                *)
(***************************************************************************)
SocketAddr(ip, port) == [ip |-> ip, port |-> port]

\* the service ports chart p announces
our_service_ports(p) == [i \in 1..N |-> 10 * i + p]

\* bincode::serialize of DiscoveryMsg: header, id, then the N elements
serialize(m) == <<m.header, m.id>> \o m.msg

\* the part of the zeroed 1024-byte buffer that deserialize reads
BufWords == 2 + N
Padded(buf) == [i \in 1..BufWords |-> IF i <= Len(buf) THEN buf[i] ELSE 0]

\* an element decodes unless it is no encoding of a T (negative here);
\* header and id are u64 and always decode
Decodable(buf) == \A i \in 3..BufWords : Padded(buf)[i] >= 0

deserialize(buf) ==
    [header |-> Padded(buf)[1], id |-> Padded(buf)[2],
     msg |-> SubSeq(Padded(buf), 3, BufWords)]

Garbage(h, i) == <<h, i>> \o [j \in 1..N |-> 0 - 1]

Entry(ip, m) == [ip |-> ip, msg |-> m]

----
(***************************************************************************)
(* Interval (chart/interval.rs): the schedule of the broadcasts.  Time is  *)
(* counted in ticks of 100 ms; the parameters are scaled to a few ticks.   *)
(***************************************************************************)
MaxTime == 6     \* the clock stops here

\* interval::Params: the period ramps down from interval_max to
\* interval_min over interval_rampdown
interval_min == 1
interval_max == 3
interval_rampdown == 4

\* the guard of broadcast_soon: Duration::from_millis(100)
Soon == 1

VARIABLES
    built,        \* the charts ChartBuilder::finish has returned
    header,       \* Chart.header
    service_id,   \* Chart.service_id
    msg,          \* Chart.msg
    map,          \* Chart.map: per chart a function from the ids charted to entries
    subs,         \* receivers of Chart.broadcast: per chart, handle -> [q, lagged, since]
    net,          \* datagrams queued at each chart's socket
    rpc,          \* position of the receiver task: "recv_from" or "send"
    pend,         \* the (id, entry, addr) insert has committed and not yet sent
    rstat,        \* receiver task: unspawned, running, aborting, cancelled, panicked
    bstat,        \* broadcaster task: unspawned, running, aborting, cancelled, panicked
    bpc,          \* position of the broadcaster task: "broadcast" or "sleep"
    maintain,     \* the maintain future
    out,          \* datagrams handed to the socket by the last step
    emits,        \* per chart: the ids notified and not forgotten since
    last,         \* the last step: operation, chart and argument
    now,          \* the monotonic clock, in ticks of 100 ms
    interval,     \* Chart.interval: per chart, the copy each task's handle owns
    waiter,       \* the call of found_everyone or found_majority in progress
    tracking,     \* whether the history of the subscriptions is kept
    mutex,        \* the Mutex around Chart.map: "free" or the thread that holds it
    builder,      \* the ChartBuilder of the user
    sock,         \* the socket open_socket is setting up
    host,         \* the sockets other programs have bound on the host
    result        \* what the builder gave its caller

vars == <<built, header, service_id, msg, map, subs, net, rpc, pend, rstat,
          bstat, bpc, maintain, out, emits, last, now, interval, waiter,
          tracking, mutex, builder, sock, host, result>>

building == <<builder, sock, host, result>>

clock == <<now, interval>>

config == <<built, header, service_id, msg>>
tasks == <<rstat, bstat, bpc, maintain>>

\* the address chart p sends from, sock.local_addr(): its host and the port
\* open_socket bound the socket to
local_addr(p) == SocketAddr(p, sock.bound)

Min(a, b) == IF a < b THEN a ELSE b
Max(a, b) == IF a > b THEN a ELSE b
\* clamp(x, lo, hi)
clamp(x, lo, hi) == Min(Max(x, lo), hi)

\* interval::Params of the chart: `interval: self.rampdown.into()`, the
\* parameters the builder held when finish was called
Params == builder.rampdown

\* (mutant) a period that goes on falling after the rampdown
period_unclamped(t) ==
    Params.max - ((Params.max - Params.min) * t) \div Params.rampdown

\* the period at time t since the start:
\* max - (max - min) * clamp(t / rampdown, 0, 1), in whole ticks
period(t) ==
    Params.max -
        ((Params.max - Params.min) * clamp(t, 0, Params.rampdown)) \div Params.rampdown

\* Params::into: an interval that starts now and has not fired
Interval_from(t) == [start |-> t, prev |-> t]

\* Interval::next: the next fire instant, prev_fire + period(prev_fire)
next(iv) == iv.prev + period(iv.prev - iv.start)

\* (mutant) an until that does not saturate
until_signed(instant, t) == instant - t

\* until: the time from t to the instant, saturating at zero
until(instant, t) == IF instant > t THEN instant - t ELSE 0

\* what sleep_till_next does to the state on wake
advance(iv) == [iv EXCEPT !.prev = next(iv)]

----
(***************************************************************************)
(* Chart: the map and the notification channel.                            *)
(***************************************************************************)
EmptyFn == [k \in {} |-> 0]

\* (mutant) an insert that keeps the entry of a key already present
map_insert_keep(mp, id, entry) ==
    [k \in (DOMAIN mp) \cup {id} |-> IF k \in DOMAIN mp THEN mp[k] ELSE entry]

\* HashMap::insert: puts or overwrites
map_insert(mp, id, entry) ==
    [k \in (DOMAIN mp) \cup {id} |-> IF k = id THEN entry ELSE mp[k]]

\* (mutant) a remove that takes every entry with it
map_remove_all(mp, id) == EmptyFn

\* (mutant) a remove that leaves the map as it is
map_remove_nothing(mp, id) == mp

\* HashMap::remove
map_remove(mp, id) == [k \in (DOMAIN mp) \ {id} |-> mp[k]]

\* (mutant) every insert counts as a first one
old_key_always_none(mp, id) == TRUE

\* old_key.is_none(): the key was absent before the insert
old_key_is_none(mp, id) == id \notin DOMAIN mp

\* (mutant) a size that forgets the chart itself
size_of_map(p) == Cardinality(DOMAIN map[p])

\* Chart::size
size(p) == Cardinality(DOMAIN map[p]) + 1

\* (mutant) a view that leaves out the entry of the least id
addr_lists_vec_skip(p) ==
    {<<id, [i \in 1..N |-> SocketAddr(map[p][id].ip, map[p][id].msg[i])]>> :
        id \in {k \in DOMAIN map[p] : \E j \in DOMAIN map[p] : j < k}}

\* Chart::addr_lists_vec: per charted id its N socket addresses (a vector
\* in no particular order: a set here)
addr_lists_vec(p) ==
    {<<id, [i \in 1..N |-> SocketAddr(map[p][id].ip, map[p][id].msg[i])]>> :
        id \in DOMAIN map[p]}

\* Chart::nth_addr_vec::<IDX>, the ports counted from 1 here
nth_addr_vec(p, IDX) ==
    {<<id, SocketAddr(map[p][id].ip, map[p][id].msg[IDX])>> : id \in DOMAIN map[p]}

\* (mutant) a snapshot that leaves out the entry of the least id
addr_vec_skip(p) ==
    {<<id, SocketAddr(map[p][id].ip, map[p][id].msg[1])>> :
        id \in {k \in DOMAIN map[p] : \E j \in DOMAIN map[p] : j < k}}

\* Chart::addr_vec of a Chart<1, Port>: the one port of every entry
addr_vec(p) ==
    {<<id, SocketAddr(map[p][id].ip, map[p][id].msg[1])>> : id \in DOMAIN map[p]}

\* (mutant) a send that queues the value twice
chan_push_twice(s, v) == [s EXCEPT !.q = Append(Append(@, v), v)]

\* the values sent to a receiver since it last received one (history, kept
\* where tracking is on; it is counted up to one more than the channel holds)
sent_since(s) == IF tracking /\ s.since <= ChanCap THEN s.since + 1 ELSE s.since

\* (mutant) a send that overwrites the oldest value without a sign of it
chan_push_silent(s, v) ==
    IF Len(s.q) < ChanCap
    THEN [s EXCEPT !.q = Append(@, v), !.since = sent_since(s)]
    ELSE [s EXCEPT !.q = Append(Tail(@), v), !.since = sent_since(s)]

\* (mutant) a send that puts the value in front of the values queued
chan_push_front(s, v) ==
    IF Len(s.q) < ChanCap
    THEN [s EXCEPT !.q = <<v>> \o @, !.since = sent_since(s)]
    ELSE [q |-> <<v>> \o SubSeq(s.q, 1, Len(s.q) - 1),
          lagged |-> IF s.lagged < MaxLag THEN s.lagged + 1 ELSE MaxLag,
          since |-> sent_since(s)]

\* broadcast::Sender::send for one receiver: append, and when the receiver
\* is more than the capacity behind, it loses the oldest value
chan_push(s, v) ==
    IF Len(s.q) < ChanCap
    THEN [s EXCEPT !.q = Append(@, v), !.since = sent_since(s)]
    ELSE [q |-> Append(Tail(s.q), v),
          lagged |-> IF s.lagged < MaxLag THEN s.lagged + 1 ELSE MaxLag,
          since |-> sent_since(s)]

\* (mutant) a send of the id alone, with a blank entry
chan_send_blank(sb, v) ==
    [s \in DOMAIN sb |-> chan_push(sb[s], [id |-> v.id, entry |-> Entry(0, <<>>)])]

\* (mutant) a send that reaches every receiver twice
chan_send_twice(sb, v) == [s \in DOMAIN sb |-> chan_push(chan_push(sb[s], v), v)]

\* broadcast::Sender::send: every receiver alive gets the value
chan_send(sb, v) == [s \in DOMAIN sb |-> chan_push(sb[s], v)]

\* (mutant) a filter without the check of the own id
accepts_own_id(p, m) == m.header = header[p]

\* (mutant) a filter without the check of the header
accepts_any_header(p, m) == m.id # service_id[p]

\* the filter of process_buf: header and own id
accepts(p, m) == m.header = header[p] /\ m.id # service_id[p]

\* Chart::our_id
our_id(p) == service_id[p]

\* what a call gives its caller: a panic, None, or Some value
Panic == <<"panic">>
None == <<"None">>
Some(x) == <<"Some", x>>

\* (mutant) an assertion that was compiled out
assert_ne_off(a, b) == TRUE

\* assert_ne!: passes iff the two differ, panics otherwise
assert_ne(a, b) == a # b

\* (mutant) a lookup that ignores IDX and takes the first port
get_nth_addr_first(p, IDX, id) ==
    IF ~assert_ne(our_id(p), id) THEN Panic
    ELSE IF id \notin DOMAIN map[p] THEN None
    ELSE Some(SocketAddr(map[p][id].ip, map[p][id].msg[1]))

\* Chart::get_addr_list
get_addr_list(p, id) ==
    IF ~assert_ne(our_id(p), id) THEN Panic
    ELSE IF id \notin DOMAIN map[p] THEN None
    ELSE Some([i \in 1..N |-> SocketAddr(map[p][id].ip, map[p][id].msg[i])])

\* Chart::get_nth_addr::<IDX>, the ports counted from 1 here
get_nth_addr(p, IDX, id) ==
    IF ~assert_ne(our_id(p), id) THEN Panic
    ELSE IF id \notin DOMAIN map[p] THEN None
    ELSE Some(SocketAddr(map[p][id].ip, map[p][id].msg[IDX]))

\* Chart::get_addr of a Chart<1, Port>
get_addr(p, id) ==
    IF ~assert_ne(our_id(p), id) THEN Panic
    ELSE IF id \notin DOMAIN map[p] THEN None
    ELSE Some(SocketAddr(map[p][id].ip, map[p][id].msg[1]))

\* (mutant) an announcement that carries a blank payload
discovery_msg_blank(p) ==
    [header |-> header[p], id |-> service_id[p], msg |-> [i \in 1..N |-> 0]]

discovery_msg(p) == [header |-> header[p], id |-> service_id[p], msg |-> msg[p]]

\* Chart::broadcast_soon, called by the receiver on its clone of the chart
broadcast_soon(p) == until(next(interval[p].receiver), now) < Soon
discovery_buf(p) == serialize(discovery_msg(p))

Datagram(buf, src) == [buf |-> buf, src |-> src]

\* the announcement of chart p as it arrives at a socket
Announcement(p) == Datagram(discovery_buf(p), local_addr(p))

\* the ids instances that are not modelled use: that of chart 1 is among them
ForeignIds == {1, 2, 3}

\* Instances that are not modelled: each sends from its own address the
\* payload it was built with, under any id (its id may be that of a chart)
\* and any header
Ids == Peers \cup ForeignIds

Foreign ==
    {[src |-> SocketAddr(1, DEFAULT_PORT + 1), msg |-> our_service_ports(1)],
     [src |-> SocketAddr(NPeers + 1, DEFAULT_PORT), msg |-> our_service_ports(2)]}
ForeignAnnouncement(h, i, f) ==
    Datagram(serialize([header |-> h, id |-> i, msg |-> f.msg]), f.src)

\* the announcements of instances that are not modelled: under the header
\* of the charts with every id, under the other header with id 2
ForeignAnnouncements ==
    {ForeignAnnouncement(7, i, f) : i \in ForeignIds, f \in Foreign}
    \cup {ForeignAnnouncement(8, 2, f) : f \in Foreign}

\* a cluster of one instance more than the notification channel holds: the
\* ids of the instances and the announcement of each
ManyIds == 2..(ChanCap + 2)
ManyAnnouncements ==
    {Datagram(serialize([header |-> 7, id |-> i, msg |-> our_service_ports(2)]),
              SocketAddr(i, DEFAULT_PORT)) : i \in ManyIds}

\* datagrams that are no announcement of any T
ForeignGarbage == {Datagram(Garbage(h, 2), SocketAddr(1, DEFAULT_PORT + 1)) : h \in Headers}

\* the sockets a datagram sent to addr arrives at
Bound(addr) == {q \in built : local_addr(q) = addr}

\* a datagram handed to the socket of chart p for dst
Sent(p, dst, buf) == [from |-> p, dst |-> dst, buf |-> buf]

NoDatagram == Datagram(<<>>, SocketAddr(0, 0))

\* what the last step was: the operation, the chart, the datagram and the id
StepV(op, p, d, k, v) == [op |-> op, p |-> p, d |-> d, k |-> k, v |-> v]
Step(op, p, d, k) == StepV(op, p, d, k, {})

Deliver(nt, dsts, d) == [q \in Peers |-> IF q \in dsts THEN nt[q] \cup {d} ELSE nt[q]]

----
\* the discovery ports a builder is given: 0, the default and another
Ports == {0, DEFAULT_PORT, DEFAULT_PORT + 1}

\* the durations with_rampdown is given
Durations == {interval_min, interval_max}

\* the rampdown periods with_rampdown is given
Rampdowns == {interval_rampdown \div 2, interval_rampdown}

\* the steps of open_socket in the order of the code, each under the name
\* of the Error its failure is mapped to
Steps == <<"Construct", "SetReuse", "SetBroadcast", "SetMulticast", "SetTTL",
           "Bind", "JoinMulticast", "SetNonBlocking", "ToTokio">>

StepNames == {Steps[i] : i \in 1..Len(Steps)}
IndexOf(kind) == CHOOSE i \in 1..Len(Steps) : Steps[i] = kind

----
TypeOK ==
    /\ built \subseteq Peers
    /\ \A p \in Peers :
        /\ DOMAIN map[p] \subseteq Ids \cup ManyIds
        /\ DOMAIN subs[p] \subseteq SubIds
        /\ emits[p] \subseteq Ids \cup ManyIds
        /\ rpc[p] \in {"recv_from", "lock", "send"}
        /\ Cardinality(pend[p]) <= 1
        /\ rstat[p] \in {"unspawned", "running", "aborting", "cancelled", "panicked"}
        /\ bstat[p] \in {"unspawned", "running", "aborting", "cancelled", "panicked"}
        /\ bpc[p] \in {"broadcast", "sleep"}
        /\ maintain[p] \in {"created", "await_f1", "await_f2", "returned",
                            "panicked", "dropped"}
        /\ interval[p].receiver.prev >= interval[p].receiver.start
        /\ interval[p].broadcaster.prev >= interval[p].broadcaster.start
    /\ now \in 0..MaxTime
    /\ waiter.pc \in {"idle", "check", "recv", "done", "panicked", "subscribed", "collect",
                    "lock"}
    /\ tracking \in BOOLEAN
    /\ mutex \in {"free", "receiver", "user"}
    /\ builder.st \in {"none", "building", "panicked", "consumed"}
    /\ sock.pc \in StepNames \cup {"idle", "done", "failed"}
    /\ sock.bound \in Ports
    /\ \A o \in host : o.port \in Ports \ {0}

\* derive(Clone) on Chart copies the interval: handle_incoming runs on
\* chart.clone(), broadcast_periodically on the chart maintain was given
ChartClones(iv) == [receiver |-> iv, broadcaster |-> iv]

\* no call of found_everyone or found_majority was made
NoCall == [pc |-> "idle"]

\* ChartBuilder::finish: an empty map, a channel without receivers
InitChart ==
    /\ service_id = [p \in Peers |-> p]
    /\ msg = [p \in Peers |-> our_service_ports(p)]
    /\ map = [p \in Peers |-> EmptyFn]
    /\ subs = [p \in Peers |-> EmptyFn]
    /\ net = [p \in Peers |-> {}]
    /\ rpc = [p \in Peers |-> "recv_from"]
    /\ pend = [p \in Peers |-> {}]
    /\ rstat = [p \in Peers |-> "unspawned"]
    /\ bstat = [p \in Peers |-> "unspawned"]
    /\ bpc = [p \in Peers |-> "broadcast"]
    /\ maintain = [p \in Peers |-> "created"]
    /\ out = {}
    /\ emits = [p \in Peers |-> {}]
    /\ last = Step("finish", 0, NoDatagram, 0)
    /\ now = 0
    /\ interval = [p \in Peers |-> ChartClones(Interval_from(0))]
    /\ waiter = NoCall
    /\ mutex = "free"

----
(***************************************************************************)
(* The receiver task: handle_incoming.                                     *)
(***************************************************************************)
\* Chart::process_buf up to the release of the map lock in Chart::insert.
\* An undecodable buffer panics at the unwrap of bincode::deserialize.
process_buf(p, d) ==
    IF ~Decodable(d.buf)
    THEN /\ rstat' = [rstat EXCEPT ![p] = "panicked"]
         /\ UNCHANGED <<map, rpc, pend>>
    ELSE LET m == deserialize(d.buf) IN
         /\ UNCHANGED rstat
         /\ IF ~accepts(p, m)
            THEN UNCHANGED <<map, rpc, pend>>
            ELSE /\ map' = [map EXCEPT ![p] = map_insert(@, m.id, Entry(d.src.ip, m.msg))]
                 /\ IF old_key_is_none(map[p], m.id)
                    THEN /\ rpc' = [rpc EXCEPT ![p] = "send"]
                         /\ pend' = [pend EXCEPT ![p] =
                                {[id |-> m.id, entry |-> Entry(d.src.ip, m.msg),
                                  addr |-> d.src]}]
                    ELSE UNCHANGED <<rpc, pend>>

\* a receiver that was asked to abort while it was being polled goes on
\* until an await of it is pending
CanReceive(p) ==
    p \in built /\ rstat[p] \in {"running", "aborting"} /\ rpc[p] = "recv_from"

\* recv_from returns a datagram queued at the socket
Receive(p, d) ==
    /\ CanReceive(p)
    /\ d \in net[p]
    /\ net' = [net EXCEPT ![p] = @ \ {d}]
    /\ process_buf(p, d)
    /\ out' = {}
    /\ last' = Step("receive", p, d, 0)
    /\ UNCHANGED <<config, tracking, mutex, building, clock, waiter, subs, bstat, bpc, maintain, emits>>

\* recv_from returns a datagram of an instance that is not modelled, or a
\* copy of the chart's own announcement (multicast loop)
ReceiveForeign(p, d) ==
    /\ CanReceive(p)
    /\ d \in ForeignAnnouncements \cup ForeignGarbage \cup ManyAnnouncements
            \cup {Announcement(p)}
    /\ process_buf(p, d)
    /\ out' = {}
    /\ last' = Step("receive", p, d, 0)
    /\ UNCHANGED <<config, tracking, mutex, building, clock, waiter, subs, net, bstat, bpc, maintain, emits>>

\* recv_from returns an error: the unwrap panics
RecvFail(p) ==
    /\ CanReceive(p)
    /\ rstat' = [rstat EXCEPT ![p] = "panicked"]
    /\ out' = {}
    /\ last' = Step("recv_error", p, NoDatagram, 0)
    /\ UNCHANGED <<config, tracking, mutex, building, clock, waiter, map, subs, net, rpc, pend, bstat, bpc, maintain, emits>>

\* recv_from is pending: the receiver suspends, and one that was asked to
\* abort is cancelled there
RecvPending(p) ==
    /\ p \in built
    /\ rstat[p] = "aborting"
    /\ rpc[p] = "recv_from"
    /\ rstat' = [rstat EXCEPT ![p] = "cancelled"]
    /\ out' = {}
    /\ last' = Step("recv_pending", p, NoDatagram, 0)
    /\ UNCHANGED <<config, tracking, mutex, building, clock, waiter, map, subs, net, rpc, pend, bstat, bpc, maintain, emits>>

\* what a task that was asked to abort while it ran becomes when it suspends
AfterSection(st) == IF st = "aborting" THEN "cancelled" ELSE st

\* the rest of Chart::insert (the send on the channel) and of the loop body
\* of handle_incoming: the reply unless a broadcast is due soon
SendNotify(p, soon) ==
    /\ p \in built
    /\ rstat[p] \in {"running", "aborting"}
    /\ rpc[p] = "send"
    /\ \E e \in pend[p] :
        /\ subs' = [subs EXCEPT ![p] = chan_send(@, [id |-> e.id, entry |-> e.entry])]
        /\ emits' = [emits EXCEPT ![p] = @ \cup {e.id}]
        /\ IF soon
           THEN out' = {} /\ UNCHANGED net
           ELSE /\ out' = {Sent(p, e.addr, discovery_buf(p))}
                /\ net' = Deliver(net, Bound(e.addr), Announcement(p))
        /\ last' = Step("notify", p, NoDatagram, e.id)
    /\ rpc' = [rpc EXCEPT ![p] = "recv_from"]
    /\ pend' = [pend EXCEPT ![p] = {}]
    /\ UNCHANGED <<config, tracking, mutex, building, clock, waiter, map, rstat, bstat, bpc, maintain>>

\* the same, with a reply that is due and a send_to that fails: the unwrap
\* panics after the notification was sent
ReplyFail(p) ==
    /\ p \in built
    /\ rstat[p] \in {"running", "aborting"}
    /\ rpc[p] = "send"
    /\ \E e \in pend[p] :
        /\ subs' = [subs EXCEPT ![p] = chan_send(@, [id |-> e.id, entry |-> e.entry])]
        /\ emits' = [emits EXCEPT ![p] = @ \cup {e.id}]
        /\ last' = Step("reply_error", p, NoDatagram, e.id)
    /\ out' = {}
    /\ rpc' = [rpc EXCEPT ![p] = "recv_from"]
    /\ pend' = [pend EXCEPT ![p] = {}]
    /\ rstat' = [rstat EXCEPT ![p] = "panicked"]
    /\ UNCHANGED <<config, tracking, mutex, building, clock, waiter, map, net, bstat, bpc, maintain>>

(***************************************************************************)
(* The broadcaster task: broadcast_periodically.                           *)
(***************************************************************************)
\* (mutant) a broadcaster that announces on the default port
discovery_port_default(p) == DEFAULT_PORT

\* Chart::discovery_port: the port the socket is bound to
discovery_port(p) == local_addr(p).port

\* broadcast: send_to the multicast group; every socket that joined the
\* group on that port gets a copy, the sender's included (multicast loop)
Broadcast(p) ==
    /\ p \in built
    /\ bstat[p] \in {"running", "aborting"}
    /\ bpc[p] = "broadcast"
    /\ out' = {Sent(p, SocketAddr(multiaddr, discovery_port(p)), discovery_buf(p))}
    /\ net' = Deliver(net, built, Announcement(p))
    /\ bpc' = [bpc EXCEPT ![p] = "sleep"]
    /\ bstat' = [bstat EXCEPT ![p] = AfterSection(@)]
    /\ last' = Step("broadcast", p, NoDatagram, 0)
    /\ UNCHANGED <<config, tracking, mutex, building, clock, waiter, map, subs, rpc, pend, rstat, maintain, emits>>

\* broadcast: send_to fails and unwrap_or_else panics
BroadcastFail(p) ==
    /\ p \in built
    /\ bstat[p] \in {"running", "aborting"}
    /\ bpc[p] = "broadcast"
    /\ bstat' = [bstat EXCEPT ![p] = "panicked"]
    /\ out' = {}
    /\ last' = Step("broadcast_error", p, NoDatagram, 0)
    /\ UNCHANGED <<config, tracking, mutex, building, clock, waiter, map, subs, net, rpc, pend, rstat, bpc, maintain, emits>>

\* (mutant) a sleep that never returns: the chart announces itself once
Sleep_forever(p) == FALSE /\ UNCHANGED vars

\* interval.sleep_till_next returns
Sleep(p) ==
    /\ p \in built
    /\ bstat[p] = "running"
    /\ bpc[p] = "sleep"
    /\ bpc' = [bpc EXCEPT ![p] = "broadcast"]
    /\ out' = {}
    /\ last' = Step("sleep", p, NoDatagram, 0)
    /\ UNCHANGED <<config, tracking, mutex, building, clock, waiter, map, subs, net, rpc, pend, rstat, bstat, maintain, emits>>

\* interval.sleep_till_next, on the clock: it returns when the next fire
\* instant of the broadcaster's interval has come, and advances it
SleepTillNext(p) ==
    /\ p \in built
    /\ bstat[p] = "running"
    /\ bpc[p] = "sleep"
    /\ now >= next(interval[p].broadcaster)
    /\ bpc' = [bpc EXCEPT ![p] = "broadcast"]
    /\ interval' = [interval EXCEPT ![p].broadcaster = advance(@)]
    /\ out' = {}
    /\ last' = Step("sleep", p, NoDatagram, 0)
    /\ UNCHANGED <<config, tracking, mutex, building, now, waiter, map, subs, net, rpc, pend, rstat, bstat,
                   maintain, emits>>

\* 100 ms pass
Tick ==
    /\ now < MaxTime
    /\ now' = now + 1
    /\ out' = {}
    /\ last' = Step("tick", 0, NoDatagram, 0)
    /\ UNCHANGED <<config, tracking, mutex, building, interval, waiter, map, subs, net, rpc, pend, tasks, emits>>

\* the network loses a datagram
Lose(p, d) ==
    /\ d \in net[p]
    /\ net' = [net EXCEPT ![p] = @ \ {d}]
    /\ out' = {}
    /\ last' = Step("lose", p, d, 0)
    /\ UNCHANGED <<config, tracking, mutex, building, clock, waiter, map, subs, rpc, pend, tasks, emits>>

----
(***************************************************************************)
(* Calls of the user on a chart handle and on its subscriptions.           *)
(***************************************************************************)
\* Chart::forget
Forget(p, k) ==
    /\ p \in built
    /\ map' = [map EXCEPT ![p] = map_remove(@, k)]
    /\ emits' = [emits EXCEPT ![p] = @ \ {k}]
    /\ out' = {}
    /\ last' = Step("forget", p, NoDatagram, k)
    /\ UNCHANGED <<config, tracking, mutex, building, clock, waiter, subs, net, rpc, pend, tasks>>

\* a call that reads the chart and gives ret to its caller; IDX is 0 for a
\* call without an index
Read(op, p, IDX, id, ret) ==
    /\ p \in built
    /\ out' = {}
    /\ last' = StepV(op, p, NoDatagram, id, {<<IDX, ret>>})
    /\ UNCHANGED <<config, tracking, mutex, building, clock, waiter, map, subs, net, rpc, pend, tasks, emits>>

\* the value the last call gave its caller
Returned == CHOOSE r \in {x[2] : x \in last.v} : TRUE
Returned_ == CHOOSE r \in {x[2] : x \in last'.v} : TRUE

GetAddr(p, id) == Read("get_addr", p, 0, id, get_addr(p, id))
GetAddrList(p, id) == Read("get_addr_list", p, 0, id, get_addr_list(p, id))
GetNthAddr(p, IDX, id) == Read("get_nth_addr", p, IDX, id, get_nth_addr(p, IDX, id))
Size(p) == Read("size", p, 0, 0, size(p))
AddrVec(p) == Read("addr_vec", p, 0, 0, addr_vec(p))
AddrListsVec(p) == Read("addr_lists_vec", p, 0, 0, addr_lists_vec(p))
NthAddrVec(p, IDX) == Read("nth_addr_vec", p, IDX, 0, nth_addr_vec(p, IDX))

\* Chart::notify: a new receiver of the channel, which sees what is sent
\* from now on
Subscribe(p, s) ==
    /\ p \in built
    /\ s \in SubIds \ DOMAIN subs[p]
    /\ subs' = [subs EXCEPT ![p] =
            [x \in (DOMAIN @) \cup {s} |-> IF x = s THEN [q |-> <<>>, lagged |-> 0, since |-> 0] ELSE @[x]]]
    /\ out' = {}
    /\ last' = Step("subscribe", p, NoDatagram, s)
    /\ UNCHANGED <<config, tracking, mutex, building, clock, waiter, map, net, rpc, pend, tasks, emits>>

\* Notify::recv returns: Lagged(n) when values were lost, else the oldest
\* value as (id, ip, msg); with nothing to return it stays suspended
NotifyRecv(p, s) ==
    /\ p \in built
    /\ s \in DOMAIN subs[p]
    /\ IF subs[p][s].lagged > 0
       THEN /\ subs' = [subs EXCEPT ![p][s].lagged = 0]
            /\ last' = StepV("recv", p, NoDatagram, s, {[lagged |-> subs[p][s].lagged]})
       ELSE /\ subs[p][s].q # <<>>
            /\ subs' = [subs EXCEPT ![p][s].q = Tail(@), ![p][s].since = 0]
            /\ LET v == Head(subs[p][s].q) IN
               last' = StepV("recv", p, NoDatagram, s,
                             {[id |-> v.id, ip |-> v.entry.ip, msg |-> v.entry.msg]})
    /\ out' = {}
    /\ UNCHANGED <<config, tracking, mutex, building, clock, waiter, map, net, rpc, pend, tasks, emits>>

\* a Notify is dropped
NotifyDrop(p, s) ==
    /\ p \in built
    /\ s \in DOMAIN subs[p]
    /\ subs' = [subs EXCEPT ![p] = [x \in (DOMAIN @) \ {s} |-> @[x]]]
    /\ out' = {}
    /\ last' = Step("notify_drop", p, NoDatagram, s)
    /\ UNCHANGED <<config, tracking, mutex, building, clock, waiter, map, net, rpc, pend, tasks, emits>>

----
(***************************************************************************)
(* discovery::found_everyone and discovery::found_majority.                *)
(***************************************************************************)
MaxFull == 4         \* the small cluster sizes a call is made with
MaxU16 == 65535      \* full_size: u16
FullSizes == (0..MaxFull) \cup {MaxU16}

\* f32::from(u16): exact, the 24 bits of an f32 hold every u16
f32_from(n) == n
\* x * 0.5 in f32: exact, as a whole part and a half
f32_half(x) == [whole |-> x \div 2, half |-> x % 2]
\* f32::ceil, then the cast to usize
ceil(y) == IF y.half = 0 THEN y.whole ELSE y.whole + 1

\* (mutant) a majority that rounds down
cluster_majority_floor(full_size) == f32_half(f32_from(full_size)).whole

\* cluster_majority: (f32::from(full_size) * 0.5).ceil() as usize
cluster_majority(full_size) == ceil(f32_half(f32_from(full_size)))

\* (mutant) a loop that also waits when the size equals the bound
still_searching_le(sz, bound) == sz <= bound

\* the condition of the while loop: chart.size() < bound
still_searching(sz, bound) == sz < bound

\* the call: chart.notify(), and for found_majority the bound
FoundCall(p, kind, full_size) ==
    /\ p \in built
    /\ waiter.pc = "idle"
    /\ \E s \in SubIds \ DOMAIN subs[p] :
        /\ subs' = [subs EXCEPT ![p] =
                [x \in (DOMAIN @) \cup {s} |-> IF x = s THEN [q |-> <<>>, lagged |-> 0, since |-> 0] ELSE @[x]]]
        /\ waiter' = [pc |-> "check", p |-> p, kind |-> kind, full_size |-> full_size,
                      bound |-> IF kind = "found_everyone" THEN full_size
                                ELSE cluster_majority(full_size),
                      sub |-> s, read |-> 0, waits |-> 0]
    /\ out' = {}
    /\ last' = Step(kind, p, NoDatagram, full_size)
    /\ UNCHANGED <<config, tracking, mutex, building, clock, map, net, rpc, pend, tasks, emits>>

\* the condition of the while loop is evaluated: the size is read, and the
\* call returns (dropping its Notify) unless the size is below the bound
FoundCheck ==
    /\ waiter.pc = "check"
    /\ LET p == waiter.p
           sz == size(p) IN
        /\ IF still_searching(sz, waiter.bound)
           THEN /\ waiter' = [waiter EXCEPT !.read = sz, !.pc = "recv"]
                /\ UNCHANGED subs
           ELSE /\ waiter' = [waiter EXCEPT !.read = sz, !.pc = "done"]
                /\ subs' = [subs EXCEPT ![p] = [x \in (DOMAIN @) \ {waiter.sub} |-> @[x]]]
        /\ last' = Step("found_check", p, NoDatagram, sz)
    /\ out' = {}
    /\ UNCHANGED <<config, tracking, mutex, building, clock, map, net, rpc, pend, tasks, emits>>

\* node_discoverd.recv().await.unwrap(): a notification is taken and the
\* loop goes on; a Lagged result panics at the unwrap
FoundRecv ==
    /\ waiter.pc = "recv"
    /\ LET p == waiter.p
           s == waiter.sub IN
        /\ IF subs[p][s].lagged > 0
           THEN /\ waiter' = [waiter EXCEPT !.pc = "panicked"]
                /\ subs' = [subs EXCEPT ![p] = [x \in (DOMAIN @) \ {s} |-> @[x]]]
           ELSE /\ subs[p][s].q # <<>>
                /\ waiter' = [waiter EXCEPT !.pc = "check", !.waits = 1]
                /\ subs' = [subs EXCEPT ![p][s].q = Tail(@), ![p][s].since = 0]
        /\ last' = Step("found_recv", p, NoDatagram, 0)
    /\ out' = {}
    /\ UNCHANGED <<config, tracking, mutex, building, clock, map, net, rpc, pend, tasks, emits>>

----
(***************************************************************************)
(* A caller that subscribes, takes a snapshot and then collects the        *)
(* notifications (tests/notify.rs).                                        *)
(***************************************************************************)
\* let mut new = chart.notify()
SnapSubscribe(p) ==
    /\ p \in built
    /\ waiter.pc = "idle"
    /\ \E s \in SubIds \ DOMAIN subs[p] :
        /\ subs' = [subs EXCEPT ![p] =
                [x \in (DOMAIN @) \cup {s} |-> IF x = s THEN [q |-> <<>>, lagged |-> 0, since |-> 0] ELSE @[x]]]
        /\ waiter' = [pc |-> "subscribed", p |-> p, sub |-> s, before |-> emits[p],
                      discoverd |-> {}, got |-> {}, lagged |-> FALSE]
    /\ out' = {}
    /\ last' = Step("subscribe", p, NoDatagram, 0)
    /\ UNCHANGED <<config, tracking, mutex, building, clock, map, net, rpc, pend, tasks, emits>>

\* let mut discoverd = chart.addr_vec().into_iter().collect()
SnapAddrVec ==
    /\ waiter.pc = "subscribed"
    /\ waiter' = [waiter EXCEPT !.pc = "collect", !.discoverd = addr_vec(waiter.p)]
    /\ out' = {}
    /\ last' = Step("addr_vec", waiter.p, NoDatagram, 0)
    /\ UNCHANGED <<config, tracking, mutex, building, clock, map, subs, net, rpc, pend, tasks, emits>>

\* new.recv().await returns: a notification, which is added to the peers
\* discovered, or Lagged
SnapRecv ==
    /\ waiter.pc = "collect"
    /\ LET p == waiter.p
           s == waiter.sub IN
        /\ IF subs[p][s].lagged > 0
           THEN /\ subs' = [subs EXCEPT ![p][s].lagged = 0]
                /\ waiter' = [waiter EXCEPT !.lagged = TRUE]
           ELSE /\ subs[p][s].q # <<>>
                /\ subs' = [subs EXCEPT ![p][s].q = Tail(@), ![p][s].since = 0]
                /\ LET v == Head(subs[p][s].q) IN
                   waiter' = [waiter EXCEPT
                        !.got = @ \cup {<<v.id, SocketAddr(v.entry.ip, v.entry.msg[1])>>}]
        /\ last' = Step("recv", p, NoDatagram, s)
    /\ out' = {}
    /\ UNCHANGED <<config, tracking, mutex, building, clock, map, net, rpc, pend, tasks, emits>>

----
(***************************************************************************)
(* The Mutex around the map, step by step: a thread calls lock(), gets the *)
(* guard when the mutex is free, and drops it at the end of the block or   *)
(* statement that took it.                                                 *)
(***************************************************************************)
Threads == {"receiver", "user"}
UserOps == {"forget", "size", "get_addr", "addr_vec"}

\* handle_incoming up to the call of insert: recv_from returns a datagram,
\* process_buf decodes and filters it
RecvFrom(p, d) ==
    /\ CanReceive(p)
    /\ Decodable(d.buf)
    /\ LET m == deserialize(d.buf) IN
        IF accepts(p, m)
        THEN /\ rpc' = [rpc EXCEPT ![p] = "lock"]
             /\ pend' = [pend EXCEPT ![p] =
                    {[id |-> m.id, entry |-> Entry(d.src.ip, m.msg), addr |-> d.src]}]
        ELSE UNCHANGED <<rpc, pend>>
    /\ out' = {}
    /\ last' = Step("recv_from", p, d, 0)
    /\ UNCHANGED <<config, tracking, mutex, building, clock, waiter, map, subs, net, tasks, emits>>

\* whether thread t is at a call of self.map.lock()
AtLock(t) ==
    IF t = "receiver" THEN \E p \in built : rpc[p] = "lock" ELSE waiter.pc = "lock"

\* self.map.lock() returns the guard
MapLock(t) ==
    /\ AtLock(t)
    /\ mutex = "free"
    /\ mutex' = t
    /\ out' = {}
    /\ last' = Step("lock", 0, NoDatagram, 0)
    /\ UNCHANGED <<config, tracking, building, clock, waiter, map, subs, net, rpc, pend,
                   tasks, emits>>

\* (mutant) an insert whose guard lives until the notification was sent
Insert_holding(p) ==
    /\ p \in built
    /\ mutex = "receiver"
    /\ rpc[p] = "lock"
    /\ \E e \in pend[p] :
        /\ map' = [map EXCEPT ![p] = map_insert(@, e.id, e.entry)]
        /\ IF old_key_is_none(map[p], e.id)
           THEN /\ rpc' = [rpc EXCEPT ![p] = "send"]
                /\ UNCHANGED <<pend, mutex>>
           ELSE /\ rpc' = [rpc EXCEPT ![p] = "recv_from"]
                /\ pend' = [pend EXCEPT ![p] = {}]
                /\ mutex' = "free"
        /\ last' = Step("insert", p, NoDatagram, e.id)
    /\ out' = {}
    /\ UNCHANGED <<config, tracking, building, clock, waiter, subs, net, tasks, emits>>

\* the block of Chart::insert that holds the guard: map.insert, and the
\* guard is dropped at the end of the block, before the send
Insert(p) ==
    /\ p \in built
    /\ mutex = "receiver"
    /\ rpc[p] = "lock"
    /\ \E e \in pend[p] :
        /\ map' = [map EXCEPT ![p] = map_insert(@, e.id, e.entry)]
        /\ IF old_key_is_none(map[p], e.id)
           THEN /\ rpc' = [rpc EXCEPT ![p] = "send"]
                /\ UNCHANGED pend
           ELSE /\ rpc' = [rpc EXCEPT ![p] = "recv_from"]
                /\ pend' = [pend EXCEPT ![p] = {}]
        /\ last' = Step("insert", p, NoDatagram, e.id)
    /\ mutex' = "free"
    /\ out' = {}
    /\ UNCHANGED <<config, tracking, building, clock, waiter, subs, net, tasks, emits>>

\* a thread of the user calls forget, size, get_addr or addr_vec
UserCall(p, op, k) ==
    /\ p \in built
    /\ waiter.pc = "idle"
    /\ op \in UserOps
    /\ waiter' = [pc |-> "lock", p |-> p, op |-> op, k |-> k]
    /\ out' = {}
    /\ last' = Step("call", p, NoDatagram, k)
    /\ UNCHANGED <<config, tracking, mutex, building, clock, map, subs, net, rpc, pend,
                   tasks, emits>>

\* what the call gives its caller
UserResult(p, op, k) ==
    IF op = "size" THEN size(p)
    ELSE IF op = "get_addr" THEN get_addr(p, k)
    ELSE IF op = "addr_vec" THEN addr_vec(p)
    ELSE {}

\* the statement of the call that holds the guard: the removal or the
\* read, and the guard is dropped at the end of the statement
UserLocked ==
    /\ waiter.pc = "lock"
    /\ mutex = "user"
    /\ LET p == waiter.p
           k == waiter.k IN
        /\ IF waiter.op = "forget"
           THEN /\ map' = [map EXCEPT ![p] = map_remove(@, k)]
                /\ emits' = [emits EXCEPT ![p] = @ \ {k}]
           ELSE UNCHANGED <<map, emits>>
        /\ last' = StepV(waiter.op, p, NoDatagram, k, {<<0, UserResult(p, waiter.op, k)>>})
    /\ waiter' = NoCall
    /\ mutex' = "free"
    /\ out' = {}
    /\ UNCHANGED <<config, tracking, building, clock, subs, net, rpc, pend, tasks>>

----
(***************************************************************************)
(* The supervisor: maintain, and util::Wrapper.                            *)
(***************************************************************************)
\* JoinHandle::abort: a task that is suspended is cancelled, one that is
\* being polled is cancelled when it suspends next, a finished one is left
\* as it is
abort(st, suspended) ==
    IF st = "running" THEN (IF suspended THEN "cancelled" ELSE "aborting") ELSE st

\* (mutant) a wrapper whose drop detaches the task, as a JoinHandle does
WrapperDrop_detach(st, suspended) == st

\* Wrapper::drop
WrapperDrop(st, suspended) == abort(st, suspended)

\* (mutant) an unwinding that leaves the task of f2 alone
Unwind_leak(st, suspended) == st

\* the panic of maintain unwinds its frame: f2 is dropped
Unwind(st, suspended) == WrapperDrop(st, suspended)

\* whether an abort can find the receiver, the broadcaster suspended: the
\* receiver is not between the insertion and its notification, the
\* broadcaster is in its sleep or was woken and not polled yet
ReceiverSuspended(p) == IF rpc[p] = "send" THEN {FALSE} ELSE BOOLEAN
BroadcasterSuspended(p) == IF bpc[p] = "sleep" THEN {TRUE} ELSE BOOLEAN

\* the first poll of maintain: both tasks are spawned, f1 is awaited
Start(p) ==
    /\ p \in built
    /\ maintain[p] = "created"
    /\ rstat' = [rstat EXCEPT ![p] = "running"]
    /\ bstat' = [bstat EXCEPT ![p] = "running"]
    /\ maintain' = [maintain EXCEPT ![p] = "await_f1"]
    /\ out' = {}
    /\ last' = Step("start", p, NoDatagram, 0)
    /\ UNCHANGED <<config, tracking, mutex, building, clock, waiter, map, subs, net, rpc, pend, bpc, emits>>

\* the caller drops the maintain future while it awaits: f1 and f2 are dropped
DropMaintain(p) ==
    /\ p \in built
    /\ maintain[p] \in {"await_f1", "await_f2"}
    /\ \E rs \in ReceiverSuspended(p) :
            rstat' = [rstat EXCEPT ![p] = WrapperDrop(@, rs)]
    /\ \E bs \in BroadcasterSuspended(p) :
            bstat' = [bstat EXCEPT ![p] = WrapperDrop(@, bs)]
    /\ maintain' = [maintain EXCEPT ![p] = "dropped"]
    /\ out' = {}
    /\ last' = Step("drop", p, NoDatagram, 0)
    /\ UNCHANGED <<config, tracking, mutex, building, clock, waiter, map, subs, net, rpc, pend, bpc, emits>>

\* (mutant) a maintain that joins the two tasks at once and reports the
\* panic of whichever ends first
MaintainF1_either(p) ==
    /\ p \in built
    /\ maintain[p] = "await_f1"
    /\ rstat[p] \in {"cancelled", "panicked"} \/ bstat[p] = "panicked"
    /\ IF rstat[p] = "cancelled" /\ bstat[p] # "panicked"
       THEN /\ maintain' = [maintain EXCEPT ![p] = "await_f2"]
            /\ UNCHANGED bstat
       ELSE /\ maintain' = [maintain EXCEPT ![p] = "panicked"]
            /\ \E bs \in BroadcasterSuspended(p) :
                    bstat' = [bstat EXCEPT ![p] = Unwind(@, bs)]
    /\ out' = {}
    /\ last' = Step("f1", p, NoDatagram, 0)
    /\ UNCHANGED <<config, tracking, mutex, building, clock, waiter, map, subs, net, rpc, pend,
                   rstat, bpc, emits>>

\* f1.await returns: a cancelled receiver is accepted, a panicked one makes
\* the unwrap panic, and the unwinding drops f2
MaintainF1(p) ==
    /\ p \in built
    /\ maintain[p] = "await_f1"
    /\ rstat[p] \in {"cancelled", "panicked"}
    /\ IF rstat[p] = "cancelled"
       THEN /\ maintain' = [maintain EXCEPT ![p] = "await_f2"]
            /\ UNCHANGED bstat
       ELSE /\ maintain' = [maintain EXCEPT ![p] = "panicked"]
            /\ \E bs \in BroadcasterSuspended(p) :
                    bstat' = [bstat EXCEPT ![p] = Unwind(@, bs)]
    /\ out' = {}
    /\ last' = Step("f1", p, NoDatagram, 0)
    /\ UNCHANGED <<config, tracking, mutex, building, clock, waiter, map, subs, net, rpc, pend, rstat, bpc, emits>>

\* (mutant) a maintain that accepts every error of f2
MaintainF2_swallow(p) ==
    /\ p \in built
    /\ maintain[p] = "await_f2"
    /\ bstat[p] \in {"cancelled", "panicked"}
    /\ maintain' = [maintain EXCEPT ![p] = "returned"]
    /\ out' = {}
    /\ last' = Step("f2", p, NoDatagram, 0)
    /\ UNCHANGED <<config, tracking, mutex, building, clock, waiter, map, subs, net, rpc, pend,
                   rstat, bstat, bpc, emits>>

\* f2.await returns: maintain returns or panics
MaintainF2(p) ==
    /\ p \in built
    /\ maintain[p] = "await_f2"
    /\ bstat[p] \in {"cancelled", "panicked"}
    /\ maintain' = [maintain EXCEPT ![p] =
            IF bstat[p] = "cancelled" THEN "returned" ELSE "panicked"]
    /\ out' = {}
    /\ last' = Step("f2", p, NoDatagram, 0)
    /\ UNCHANGED <<config, tracking, mutex, building, clock, waiter, map, subs, net, rpc, pend, rstat, bstat, bpc, emits>>

\* the runtime shuts down under a maintain that is being awaited: it
\* cancels the tasks
RuntimeShutdown(p) ==
    /\ p \in built
    /\ maintain[p] \in {"await_f1", "await_f2"}
    /\ rstat[p] = "running" \/ bstat[p] = "running"
    /\ \E rs \in ReceiverSuspended(p) :
            rstat' = [rstat EXCEPT ![p] = abort(@, rs)]
    /\ \E bs \in BroadcasterSuspended(p) :
            bstat' = [bstat EXCEPT ![p] = abort(@, bs)]
    /\ out' = {}
    /\ last' = Step("shutdown", p, NoDatagram, 0)
    /\ UNCHANGED <<config, tracking, mutex, building, clock, waiter, map, subs, net, rpc, pend, bpc, maintain, emits>>

----
(***************************************************************************)
(* ChartBuilder and open_socket: the construction of a chart.              *)
(***************************************************************************)
\* Ok(chart), told by the port its socket is bound to
Ok(x) == <<"Ok", x>>

\* (mutant) errors that do not tell the steps apart
StepError_construct(kind, port) == <<"Err", "Construct">>

\* map_err of a step: the Error of that step; Bind carries the port
StepError(kind, port) ==
    IF kind = "Bind" THEN <<"Err", kind, port>> ELSE <<"Err", kind>>

\* (mutant) the option is set whatever local_discovery says
sets_reuse_port_always(local_discovery) == TRUE

\* if local_discovery { sock.set_reuse_port(true) }
sets_reuse_port(local_discovery) == local_discovery

\* the step that follows kind: set_reuse_port is run under its condition
StepAfter(kind, local_discovery) ==
    LET i == IndexOf(kind) IN
    IF i = Len(Steps) THEN "done"
    ELSE IF Steps[i + 1] = "SetReuse" /\ ~sets_reuse_port(local_discovery)
         THEN Steps[i + 2]
         ELSE Steps[i + 1]

\* (mutant) a with_rampdown without its assertion
min_le_max_off(min, max) == TRUE

\* assert!(min <= max) of with_rampdown
min_le_max(min, max) == min <= max

\* ChartBuilder::new
ChartBuilder_new ==
    [st |-> "building", discovery_port |-> DEFAULT_PORT, local |-> FALSE,
     rampdown |-> [min |-> interval_min, max |-> interval_max,
                   rampdown |-> interval_rampdown]]

NoBuilder == [st |-> "none"]
NoSocket == [pc |-> "idle", done |-> <<>>, bound |-> 0]

\* the sockets of other programs: on the default port, with or without
\* SO_REUSEPORT
OtherSockets == {[port |-> DEFAULT_PORT, reuse |-> r] : r \in BOOLEAN}

\* whether SO_REUSEPORT was set on the socket being set up
HasReuse(sk) == \E i \in 1..Len(sk.done) : sk.done[i] = "SetReuse"

\* bind fails on a port another socket is bound to, unless both sockets
\* have SO_REUSEPORT set
AddrInUse(port, reuse) == \E o \in host : o.port = port /\ ~(reuse /\ o.reuse)

\* the variables of the charts, which building leaves alone
charted == <<header, service_id, msg, tracking, mutex, clock, waiter, map, subs, net, rpc,
             pend, tasks, out, emits, last>>

\* ChartBuilder::new: a fresh builder (the earlier one is gone)
New ==
    /\ builder.st \in {"none", "consumed", "panicked"}
    /\ sock.pc \in {"idle", "done", "failed"}
    /\ builder' = ChartBuilder_new
    /\ sock' = NoSocket
    /\ result' = None
    /\ UNCHANGED <<built, host, charted>>

\* ChartBuilder::with_discovery_port
WithDiscoveryPort(port) ==
    /\ builder.st = "building"
    /\ builder' = [builder EXCEPT !.discovery_port = port]
    /\ UNCHANGED <<built, sock, host, result, charted>>

\* ChartBuilder::local_discovery
LocalDiscovery(is_enabled) ==
    /\ builder.st = "building"
    /\ builder' = [builder EXCEPT !.local = is_enabled]
    /\ UNCHANGED <<built, sock, host, result, charted>>

\* ChartBuilder::with_rampdown: the assertion, then the parameters are set;
\* a panic unwinds and drops the builder, which was moved into the call
WithRampdown(min, max, rampdown) ==
    /\ builder.st = "building"
    /\ IF min_le_max(min, max)
       THEN /\ builder' = [builder EXCEPT
                    !.rampdown = [min |-> min, max |-> max, rampdown |-> rampdown]]
            /\ UNCHANGED result
       ELSE /\ builder' = [st |-> "panicked"]
            /\ result' = Panic
    /\ UNCHANGED <<built, sock, host, charted>>

\* ChartBuilder::finish up to the first step of open_socket: the builder is
\* consumed and assert_ne!(port, 0) is evaluated
Finish ==
    /\ builder.st = "building"
    /\ builder' = [builder EXCEPT !.st = "consumed"]
    /\ IF assert_ne(builder.discovery_port, 0)
       THEN /\ sock' = [NoSocket EXCEPT !.pc = Steps[1]]
            /\ UNCHANGED result
       ELSE /\ result' = Panic
            /\ UNCHANGED sock
    /\ UNCHANGED <<built, host, charted>>

\* one step of open_socket: the call of the step fails or not (fails), and
\* bind fails on an address in use; a failure returns the Error of the step
\* by `?` and drops the socket, the last step returns the chart
OpenStep(fails) ==
    /\ sock.pc \in StepNames
    /\ LET kind == sock.pc
           port == builder.discovery_port IN
       IF fails \/ (kind = "Bind" /\ AddrInUse(port, HasReuse(sock)))
       THEN /\ sock' = [sock EXCEPT !.pc = "failed", !.bound = 0]
            /\ result' = StepError(kind, port)
            /\ UNCHANGED <<built, host>>
       ELSE /\ sock' = [pc |-> StepAfter(kind, builder.local),
                        done |-> Append(sock.done, kind),
                        bound |-> IF kind = "Bind" THEN port ELSE sock.bound]
            /\ IF StepAfter(kind, builder.local) = "done"
               THEN /\ result' = Ok(sock.bound)
                    /\ built' = built \cup {1}
                    /\ host' = host \cup {[port |-> sock.bound, reuse |-> HasReuse(sock)]}
               ELSE UNCHANGED <<result, built, host>>
    /\ UNCHANGED <<builder, charted>>

\* the state finish leaves behind when it has returned a chart with local
\* discovery on the default port
AfterFinish ==
    /\ builder = [ChartBuilder_new EXCEPT !.st = "consumed", !.local = TRUE]
    /\ sock = [pc |-> "done", done |-> Steps, bound |-> DEFAULT_PORT]
    /\ host = {}
    /\ result = Ok(DEFAULT_PORT)

----
(***************************************************************************)
(* Spec: one chart, its receiver running, in an arbitrary environment of   *)
(* announcements and user calls.                                           *)
(***************************************************************************)
Init ==
    /\ InitChart
    /\ AfterFinish
    /\ tracking = FALSE
    /\ built = {1}
    /\ header = [p \in Peers |-> 7]

Next ==
    \E p \in Peers :
        \/ Start(p)
        \/ \E d \in ForeignAnnouncements \cup {Announcement(p)} : ReceiveForeign(p, d)
        \/ \E soon \in BOOLEAN : SendNotify(p, soon)
        \/ \E k \in ForeignIds : Forget(p, k)
        \/ \E s \in SubIds : Subscribe(p, s)
        \/ \E s \in SubIds : NotifyRecv(p, s)
        \/ \E s \in SubIds : NotifyDrop(p, s)

Spec == Init /\ [][Next]_vars

(***************************************************************************)
(* TaskSpec: one chart, maintain and its two tasks, with datagrams that do *)
(* not decode, failing sockets, the drop of maintain and the shutdown of   *)
(* the runtime.                                                            *)
(***************************************************************************)
TaskNext ==
    \E p \in Peers :
        \/ Start(p)
        \/ \E d \in net[p] : Receive(p, d)
        \/ \E d \in ForeignAnnouncements \cup ForeignGarbage : ReceiveForeign(p, d)
        \/ \E soon \in BOOLEAN : SendNotify(p, soon)
        \/ ReplyFail(p)
        \/ RecvFail(p)
        \/ RecvPending(p)
        \/ Broadcast(p)
        \/ BroadcastFail(p)
        \/ Sleep(p)
        \/ DropMaintain(p)
        \/ MaintainF1(p)
        \/ MaintainF2(p)
        \/ RuntimeShutdown(p)

TaskSpec == Init /\ [][TaskNext]_vars

(***************************************************************************)
(* NetSpec: NPeers charts with distinct ids on one network and one         *)
(* discovery port, each under maintain, with any choice of headers.  The   *)
(* network may lose datagrams.  The tasks are scheduled fairly, and an     *)
(* announcement that keeps arriving at a socket is eventually received.    *)
(***************************************************************************)
NetInit ==
    /\ InitChart
    /\ AfterFinish
    /\ tracking = FALSE
    /\ built = Peers
    /\ header \in [Peers -> Headers]

NetNext ==
    \E p \in Peers :
        \/ Start(p)
        \/ \E d \in net[p] : Receive(p, d)
        \/ \E soon \in BOOLEAN : SendNotify(p, soon)
        \/ Broadcast(p)
        \/ Sleep(p)
        \/ \E d \in net[p] : Lose(p, d)

NetFair ==
    \A p \in Peers :
        /\ WF_vars(Start(p))
        /\ WF_vars(Broadcast(p))
        /\ WF_vars(Sleep(p))
        /\ WF_vars(\E soon \in BOOLEAN : SendNotify(p, soon))
        /\ \A q \in Peers : SF_vars(Receive(p, Announcement(q)))

NetSpec == NetInit /\ [][NetNext]_vars /\ NetFair

(***************************************************************************)
(* TimeSpec: one chart on the clock: the reply guard of the receiver and   *)
(* the schedule of the broadcaster.                                        *)
(***************************************************************************)
TimeNext ==
    \/ Tick
    \/ \E p \in Peers :
        \/ Start(p)
        \/ \E d \in ForeignAnnouncements : ReceiveForeign(p, d)
        \/ SendNotify(p, broadcast_soon(p))
        \/ Broadcast(p)
        \/ SleepTillNext(p)

TimeSpec == Init /\ [][TimeNext]_vars

(***************************************************************************)
(* WaitSpec: one chart under discovery and forget, and a caller of         *)
(* found_everyone or found_majority.  The caller and the receiver task are *)
(* scheduled fairly.                                                       *)
(***************************************************************************)
\* one announcement per foreign id suffices here: the calls read the size
WaitAnnouncements ==
    {ForeignAnnouncement(7, i, CHOOSE f \in Foreign : TRUE) : i \in ForeignIds}

WaitNext ==
    \/ FoundCheck
    \/ FoundRecv
    \/ \E p \in Peers :
        \/ Start(p)
        \/ \E d \in WaitAnnouncements : ReceiveForeign(p, d)
        \/ \E soon \in BOOLEAN : SendNotify(p, soon)
        \/ \E k \in ForeignIds : Forget(p, k)
        \/ \E kind \in {"found_everyone", "found_majority"}, n \in FullSizes :
                FoundCall(p, kind, n)

WaitFair ==
    /\ WF_vars(FoundCheck)
    /\ WF_vars(FoundRecv)
    /\ \A p \in Peers : WF_vars(\E soon \in BOOLEAN : SendNotify(p, soon))

WaitSpec == Init /\ [][WaitNext]_vars /\ WaitFair

(***************************************************************************)
(* GrowSpec: one chart and its subscribers, forget never called.           *)
(***************************************************************************)
GrowNext ==
    \E p \in Peers :
        \/ Start(p)
        \/ \E d \in ForeignAnnouncements \cup {Announcement(p)} : ReceiveForeign(p, d)
        \/ \E soon \in BOOLEAN : SendNotify(p, soon)
        \/ \E s \in SubIds : Subscribe(p, s) \/ NotifyRecv(p, s) \/ NotifyDrop(p, s)

GrowSpec == Init /\ [][GrowNext]_vars

(***************************************************************************)
(* ChanSpec: one chart under discovery and forget and the subscribers of   *)
(* its notifications; the history of the subscriptions is kept.            *)
(***************************************************************************)
ChanInit ==
    /\ InitChart
    /\ AfterFinish
    /\ tracking = TRUE
    /\ built = {1}
    /\ header = [p \in Peers |-> 7]

ChanNext ==
    \E p \in Peers :
        \/ Start(p)
        \/ \E d \in WaitAnnouncements : ReceiveForeign(p, d)
        \/ \E soon \in BOOLEAN : SendNotify(p, soon)
        \/ \E k \in ForeignIds : Forget(p, k)
        \/ \E s \in SubIds : Subscribe(p, s)
        \/ \E s \in SubIds : NotifyRecv(p, s)
        \/ \E s \in SubIds : NotifyDrop(p, s)

ChanSpec == ChanInit /\ [][ChanNext]_vars

(***************************************************************************)
(* BuildSpec: a user who builds charts, on a host where other programs may *)
(* have bound the default discovery port, with calls that may fail.        *)
(***************************************************************************)
BuildInit ==
    /\ InitChart
    /\ tracking = FALSE
    /\ built = {}
    /\ header = [p \in Peers |-> 7]
    /\ builder = NoBuilder
    /\ sock = NoSocket
    /\ host \in SUBSET OtherSockets
    /\ result = None

BuildNext ==
    \/ New
    \/ \E port \in Ports : WithDiscoveryPort(port)
    \/ \E is_enabled \in BOOLEAN : LocalDiscovery(is_enabled)
    \/ \E min \in Durations, max \in Durations : WithRampdown(min, max, interval_rampdown)
    \/ Finish
    \/ \E fails \in BOOLEAN : OpenStep(fails)

BuildSpec == BuildInit /\ [][BuildNext]_vars

(***************************************************************************)
(* CastSpec: a chart is built on a discovery port of the user's choice and *)
(* given to maintain; its broadcaster announces it on the clock.           *)
(***************************************************************************)
CastInit ==
    /\ InitChart
    /\ tracking = FALSE
    /\ built = {}
    /\ header \in [Peers -> Headers]
    /\ builder = ChartBuilder_new
    /\ sock = NoSocket
    /\ host = {}
    /\ result = None

CastNext ==
    \/ \E port \in Ports : WithDiscoveryPort(port)
    \/ \E is_enabled \in BOOLEAN : LocalDiscovery(is_enabled)
    \/ \E min \in Durations, max \in Durations, rampdown \in Rampdowns :
            WithRampdown(min, max, rampdown)
    \/ Finish
    \/ OpenStep(FALSE)
    \/ Tick
    \/ \E p \in Peers :
        \/ Start(p)
        \/ \E d \in net[p] : Receive(p, d)
        \/ Broadcast(p)
        \/ BroadcastFail(p)
        \/ SleepTillNext(p)

CastSpec == CastInit /\ [][CastNext]_vars

(***************************************************************************)
(* SnapSpec: one chart that discovers a cluster larger than its channel,   *)
(* forget never called, and a caller that subscribes, takes a snapshot     *)
(* and collects.                                                           *)
(***************************************************************************)
SnapNext ==
    \/ SnapAddrVec
    \/ SnapRecv
    \/ \E p \in Peers :
        \/ Start(p)
        \/ \E d \in ManyAnnouncements : ReceiveForeign(p, d)
        \/ \E soon \in BOOLEAN : SendNotify(p, soon)
        \/ SnapSubscribe(p)

SnapSpec == Init /\ [][SnapNext]_vars

(***************************************************************************)
(* LockSpec: one chart, its two tasks, subscribers and a thread of the     *)
(* user that calls into the chart, with the mutex of the map taken and     *)
(* released step by step.                                                  *)
(***************************************************************************)
LockNext ==
    \/ UserLocked
    \/ \E t \in Threads : MapLock(t)
    \/ \E p \in Peers :
        \/ Start(p)
        \/ \E d \in WaitAnnouncements \cup {Announcement(p)} : RecvFrom(p, d)
        \/ Insert(p)
        \/ \E soon \in BOOLEAN : SendNotify(p, soon)
        \/ Broadcast(p)
        \/ Sleep(p)
        \/ \E op \in UserOps, k \in ForeignIds \ {service_id[p]} : UserCall(p, op, k)
        \/ \E s \in SubIds : Subscribe(p, s)
        \/ \E s \in SubIds : NotifyRecv(p, s)

LockSpec == Init /\ [][LockNext]_vars

(***************************************************************************)
(* LookupSpec: one chart under discovery and forget, read by its user.     *)
(***************************************************************************)
LookupNext ==
    \E p \in Peers :
        \/ Start(p)
        \/ \E d \in ForeignAnnouncements \cup {Announcement(p)} : ReceiveForeign(p, d)
        \/ \E soon \in BOOLEAN : SendNotify(p, soon)
        \/ \E k \in ForeignIds : Forget(p, k)
        \/ \E id \in Ids : GetAddr(p, id)
        \/ \E id \in Ids : GetAddrList(p, id)
        \/ \E id \in Ids, IDX \in 1..N : GetNthAddr(p, IDX, id)
        \/ Size(p)
        \/ AddrVec(p)
        \/ AddrListsVec(p)
        \/ \E IDX \in 1..N : NthAddrVec(p, IDX)

LookupSpec == Init /\ [][LookupNext]_vars

----
(***************************************************************************)
(* Properties.                                                             *)
(***************************************************************************)
\* the last step processed a datagram that decoded
Received == last.op = "receive" /\ Decodable(last.d.buf)
ReceivedMsg == deserialize(last.d.buf)
\* ... and the datagram had the header of the chart and another id
Accepted ==
    /\ Received
    /\ ReceivedMsg.header = header[last.p]
    /\ ReceivedMsg.id # service_id[last.p]
ReceivedEntry == Entry(last.d.src.ip, ReceivedMsg.msg)

\* the same of the step being taken
Received_ == last'.op = "receive" /\ Decodable(last'.d.buf)
ReceivedMsg_ == deserialize(last'.d.buf)
Accepted_ ==
    /\ Received_
    /\ ReceivedMsg_.header = header[last'.p]
    /\ ReceivedMsg_.id # service_id[last'.p]
ReceivedEntry_ == Entry(last'.d.src.ip, ReceivedMsg_.msg)
\* the step being taken commits a first-time insertion
FirstTime_ == Accepted_ /\ ReceivedMsg_.id \notin DOMAIN map[last'.p]

\* subscription s2 is s1 after exactly one more notification, v
GotOne(s1, s2, v) ==
    /\ s2.q # <<>>
    /\ s2.q[Len(s2.q)] = v
    /\ \/ Len(s2.q) + s2.lagged = Len(s1.q) + s1.lagged + 1
       \/ s1.lagged = MaxLag /\ s2.lagged = MaxLag /\ Len(s2.q) = Len(s1.q)
    /\ \A i \in 1..(Len(s2.q) - 1) : s2.q[i] = s1.q[i + Len(s1.q) + 1 - Len(s2.q)]

\* no subscription of chart p gains a notification in the step
NoneNotified_(p) ==
    \A s \in (DOMAIN subs[p]) \cap (DOMAIN subs'[p]) :
        /\ Len(subs'[p][s].q) <= Len(subs[p][s].q)
        /\ subs'[p][s].lagged <= subs[p][s].lagged

\* every subscription of chart p gains exactly the notification (k, entry)
AllNotified_(p, v) ==
    /\ DOMAIN subs'[p] = DOMAIN subs[p]
    /\ \A s \in DOMAIN subs[p] : GotOne(subs[p][s], subs'[p][s], v)

(* C1: in every reachable state the chart's own id is not a key of its    *)
(* map, whatever it has received: copies of its own announcement and      *)
(* announcements of another instance under the same id included.          *)
C1_OwnIdNotInMap == \A p \in built : service_id[p] \notin DOMAIN map[p]

\* an announcement of another instance under the chart's id and header was
\* processed by a chart that has charted others
C1_Witness ==
    /\ Received
    /\ ReceivedMsg.id = service_id[last.p]
    /\ ReceivedMsg.header = header[last.p]
    /\ last.d.src # local_addr(last.p)
    /\ DOMAIN map[last.p] # {}

(* C2: right after the receiver processed a datagram D with the chart's   *)
(* header and an id k other than its own, map[k] is (source ip of D,      *)
(* payload of D), whether k was absent or present before.                 *)
C2_EntryIsLastReceived ==
    Accepted =>
        /\ ReceivedMsg.id \in DOMAIN map[last.p]
        /\ map[last.p][ReceivedMsg.id].msg = ReceivedMsg.msg
        /\ map[last.p][ReceivedMsg.id].ip = last.d.src.ip

\* an entry was overwritten: the id was charted before (its notification
\* sits in a subscription, with another entry) and nothing is owed
C2_Witness ==
    /\ Accepted
    /\ pend[last.p] = {}
    /\ \E s \in DOMAIN subs[last.p] : \E i \in 1..Len(subs[last.p][s].q) :
        /\ subs[last.p][s].q[i].id = ReceivedMsg.id
        /\ subs[last.p][s].q[i].entry # ReceivedEntry

\* a step that emits a notification emits the one owed for a first-time
\* insertion, once to every subscription that exists then
NotifyEmitsOwed_ ==
    last'.op = "notify" =>
        \E e \in pend[last'.p] :
            /\ e.id = last'.k
            /\ pend'[last'.p] = {}
            /\ AllNotified_(last'.p, [id |-> e.id, entry |-> e.entry])

\* a step that processes a datagram owes a notification (k, ip, payload)
\* exactly when it commits a first-time insertion, and emits none itself
ReceiveOwes_ ==
    last'.op = "receive" =>
        /\ NoneNotified_(last'.p)
        /\ pend'[last'.p] =
             IF FirstTime_
             THEN {[id |-> ReceivedMsg_.id, entry |-> ReceivedEntry_, addr |-> last'.d.src]}
             ELSE {}

(* C3 as stated: every first-time insertion of k emits exactly one        *)
(* notification (k, ip, payload) to every subscriber, and between two     *)
(* consecutive forget(k) (or from the start to the first) at most one     *)
(* notification for k is emitted.                                         *)
C3_Original ==
    [][/\ ReceiveOwes_
       /\ NotifyEmitsOwed_
       /\ (last'.op = "notify" => last'.k \notin emits[last'.p])]_vars

(* C3 as amended: every first-time insertion of k emits exactly one       *)
(* notification (k, ip, payload) to every subscriber that exists when it  *)
(* is sent, no other step emits one, and k once inserted stays charted    *)
(* until forget(k), so that between two consecutive forget(k) at most one *)
(* insertion of k is a first one.  (The notification may be sent after    *)
(* the forget(k) that follows the insertion.)                             *)
C3_OneNotificationPerFirstInsertion ==
    [][/\ ReceiveOwes_
       /\ NotifyEmitsOwed_
       /\ (last'.op # "notify" => \A p \in built : NoneNotified_(p))
       /\ \A p \in built : \A k \in DOMAIN map[p] :
            k \notin DOMAIN map'[p] => last'.op = "forget" /\ last'.k = k /\ last'.p = p]_vars

\* a notification was emitted to a subscription for an id that forget
\* had removed in between
C3_Witness ==
    /\ last.op = "notify"
    /\ last.k \notin DOMAIN map[last.p]
    /\ \E s \in DOMAIN subs[last.p] :
        /\ subs[last.p][s].q # <<>>
        /\ subs[last.p][s].q[Len(subs[last.p][s].q)].id = last.k

(* C4: processing the announcement of k again (k charted with the entry   *)
(* of that announcement, no forget in between) leaves the map as it is    *)
(* and emits no notification.                                             *)
C4_RepeatIsIdempotent ==
    [][(/\ Accepted_
        /\ ReceivedMsg_.id \in DOMAIN map[last'.p]
        /\ map[last'.p][ReceivedMsg_.id] = ReceivedEntry_)
       => /\ map' = map
          /\ subs' = subs
          /\ pend'[last'.p] = {}
          /\ rpc'[last'.p] = "recv_from"]_vars

\* the announcement whose entry is charted, and was notified, came again
C4_Witness ==
    /\ Accepted
    /\ pend[last.p] = {}
    /\ ReceivedMsg.id \in emits[last.p]
    /\ \E s \in DOMAIN subs[last.p] : \E i \in 1..Len(subs[last.p][s].q) :
        subs[last.p][s].q[i] = [id |-> ReceivedMsg.id, entry |-> ReceivedEntry]

(* C5: forget(k) of a charted k leaves k absent and size() one less; the  *)
(* next announcement of k processed inserts k again and emits exactly one *)
(* further notification for k to every subscriber.                        *)
C5_ForgetThenRediscover ==
    [][/\ (last'.op = "forget" /\ last'.k \in DOMAIN map[last'.p]) =>
            /\ last'.k \notin DOMAIN map'[last'.p]
            /\ Cardinality(DOMAIN map'[last'.p]) + 1 = size(last'.p) - 1
       /\ (Accepted_ /\ ReceivedMsg_.id \notin DOMAIN map[last'.p]) =>
            /\ ReceivedMsg_.id \in DOMAIN map'[last'.p]
            /\ \E e \in pend'[last'.p] : e.id = ReceivedMsg_.id
            /\ rpc'[last'.p] = "send"
       /\ (last'.op = "notify") =>
            \E e \in pend[last'.p] :
                AllNotified_(last'.p, [id |-> e.id, entry |-> e.entry])]_vars

\* k was notified, forgotten, inserted and notified again: a subscription
\* holds two notifications for it
C5_Witness ==
    /\ last.op = "notify"
    /\ last.k \in DOMAIN map[last.p]
    /\ \E s \in DOMAIN subs[last.p] :
        /\ Len(subs[last.p][s].q) = 2
        /\ subs[last.p][s].q[1].id = last.k
        /\ subs[last.p][s].q[2].id = last.k

(* C7 as stated: a datagram that fails to decode is dropped silently:     *)
(* the map is unchanged, no notification and no reply is produced, and    *)
(* the receiver task keeps running.                                       *)
C7_Original ==
    [][(last'.op = "receive" /\ ~Decodable(last'.d.buf)) =>
        /\ map' = map
        /\ subs' = subs
        /\ pend' = pend
        /\ out' = {}
        /\ rstat' = rstat]_vars

Finished == {"cancelled", "panicked"}
Stopping == Finished \cup {"aborting"}
Ended == {"returned", "panicked"}

\* the datagrams of out that chart p sent to the multicast group, to an
\* instance
AnnouncedBy(p, o) == {x \in o : x.from = p /\ x.dst.ip = multiaddr}
RepliedBy(p, o) == {x \in o : x.from = p /\ x.dst.ip # multiaddr}

Group(p) == {service_id[q] : q \in {x \in built : header[x] = header[p]}}
\* the step being taken processes a datagram of another header
Mismatched_ == Received_ /\ ReceivedMsg_.header # header[last'.p]

(* C6: a datagram whose decoded header differs from the header of the     *)
(* chart changes nothing: the map is unchanged, no notification and no    *)
(* reply becomes due or is sent.  So with charts of two headers on one    *)
(* discovery port, the map of a chart holds ids of its own group only.    *)
C6_HeaderMismatchChangesNothing ==
    /\ [](\A p \in built : DOMAIN map[p] \subseteq Group(p))
    /\ [][Mismatched_ =>
            /\ map' = map
            /\ subs' = subs
            /\ emits' = emits
            /\ pend' = pend
            /\ rpc' = rpc
            /\ rstat' = rstat
            /\ out' = {}]_vars

\* two charts of different headers, each started, and one has just
\* processed the announcement of the other
C6_Witness ==
    /\ last.op = "receive"
    /\ Received
    /\ ReceivedMsg.header # header[last.p]
    /\ ReceivedMsg.id \in {service_id[q] : q \in built \ {last.p}}
    /\ ReceivedMsg.id \notin DOMAIN map[last.p]

SameHeader == \A p, q \in Peers : header[p] = header[q]
Others(p) == {service_id[q] : q \in Peers \ {p}}
FoundEveryone == \A p \in Peers : size(p) = NPeers /\ DOMAIN map[p] = Others(p)

(* C10: NPeers >= 2 charts with distinct ids, one header and one          *)
(* discovery port, each running maintain, under fair scheduling and a     *)
(* network that does not lose every datagram forever: eventually the size *)
(* of every chart is NPeers, its map holding the ids of the others.       *)
C10_EventuallyFoundEveryone == SameHeader => <>FoundEveryone

\* the charts have one header and each has found all the others
C10_Witness ==
    /\ SameHeader
    /\ NPeers >= 2
    /\ FoundEveryone
    /\ \A p \in Peers : maintain[p] = "await_f1"

\* the addresses chart b serves at, as another chart sees them
ServedAt(b) == [i \in 1..N |-> SocketAddr(local_addr(b).ip, msg[b][i])]

(* C11: among charts with distinct ids, whenever the id of chart b is in  *)
(* the map of chart a, the entry holds the payload b was built with and   *)
(* the ip b sends from, so the address views of a hold (b, ip:port) for   *)
(* every service port of b.                                               *)
C11_EntryIsPeersPayload ==
    \A a \in built : \A b \in built \ {a} :
        service_id[b] \in DOMAIN map[a] =>
            /\ map[a][service_id[b]].msg = msg[b]
            /\ map[a][service_id[b]].ip = local_addr(b).ip
            /\ <<service_id[b], ServedAt(b)>> \in addr_lists_vec(a)
            /\ \A i \in 1..N : <<service_id[b], ServedAt(b)[i]>> \in nth_addr_vec(a, i)
            /\ <<service_id[b], ServedAt(b)[1]>> \in addr_vec(a)

\* chart a has just charted chart b from its announcement
C11_Witness ==
    /\ Accepted
    /\ \E b \in built \ {last.p} :
        /\ ReceivedMsg.id = service_id[b]
        /\ last.d = Announcement(b)
        /\ service_id[b] \in DOMAIN map[last.p]

\* the datagrams chart p replied with in the step being taken
Replies_(p) == RepliedBy(p, out')

(* C12: the receiver replies only for a datagram that caused a first-time *)
(* insertion: a datagram that is dropped (other header, own id) or whose  *)
(* id is charted already makes no reply due, and a reply that is sent is  *)
(* one unicast to the source address of the datagram that was inserted,   *)
(* carrying the header, id and payload of the chart.                      *)
C12_ReplyOnlyForFirstInsertion ==
    [][\A p \in built :
        /\ (Received_ /\ last'.p = p) =>
            /\ out' = {}
            /\ IF FirstTime_
               THEN /\ rpc'[p] = "send"
                    /\ \E e \in pend'[p] :
                        pend'[p] = {e} /\ e.addr = last'.d.src /\ e.id = ReceivedMsg_.id
               ELSE rpc'[p] = "recv_from" /\ pend'[p] = {}
        /\ Replies_(p) # {} =>
            /\ last'.op = "notify"
            /\ rpc[p] = "send"
            /\ \E e \in pend[p] :
                /\ last'.k = e.id
                /\ out' = {Sent(p, e.addr, discovery_buf(p))}
            /\ \A o \in out' : deserialize(o.buf) = discovery_msg(p)
        /\ rpc[p] = "send" => rpc'[p] = "recv_from" \/ (rpc'[p] = "send" /\ pend'[p] = pend[p])
       ]_vars

\* a reply has just been sent to an instance that was charted for the
\* first time
C12_Witness ==
    /\ last.op = "notify"
    /\ \E p \in built : \E o \in RepliedBy(p, out) :
        /\ o.dst \notin {local_addr(q) : q \in Peers}
        /\ last.k \in DOMAIN map[p]

\* the ids a lookup on chart p finds
Found(p) == {k \in Ids \ {our_id(p)} : get_addr_list(p, k) # None}

(* C18: size() is the number of ids in the map plus one, the chart        *)
(* itself: every call returns one more than the number of ids a lookup    *)
(* finds, it is at least 1 in every state, and 1 for a chart that was     *)
(* just built.                                                            *)
C18_SizeCountsSelf ==
    \A p \in built :
        /\ size(p) = Cardinality(Found(p)) + 1
        /\ size(p) = Cardinality(DOMAIN map[p]) + 1
        /\ size(p) >= 1
        /\ last.op = "finish" => size(p) = 1
        /\ (last.op = "size" /\ last.p = p) => Returned = Cardinality(DOMAIN map[p]) + 1

\* size() was called on a chart that has charted two instances
C18_Witness ==
    /\ last.op = "size"
    /\ Returned = 3
    /\ Cardinality(DOMAIN map[last.p]) = 2

Lookups == {"get_addr", "get_addr_list", "get_nth_addr"}

(* C20: get_addr, get_addr_list and get_nth_addr called with the id of    *)
(* the chart panic, in every state, and give no value; the map is as it   *)
(* was.                                                                   *)
C20_LookupOfSelfPanics ==
    /\ [](\A p \in built :
            /\ get_addr(p, our_id(p)) = Panic
            /\ get_addr_list(p, our_id(p)) = Panic
            /\ \A IDX \in 1..N : get_nth_addr(p, IDX, our_id(p)) = Panic)
    /\ [][(last'.op \in Lookups /\ last'.k = our_id(last'.p)) =>
            /\ Returned_ = Panic
            /\ map' = map
            /\ subs' = subs
            /\ out' = {}]_vars

\* the user of a chart that has charted an instance looked up the chart's
\* own id
C20_Witness ==
    /\ last.op \in Lookups
    /\ last.k = our_id(last.p)
    /\ DOMAIN map[last.p] # {}
    /\ Returned = Panic

\* the ids of the notifications queued for a subscription
QueuedIds(sub) == {sub.q[i].id : i \in 1..Len(sub.q)}
Distinct(sub) == \A i, j \in 1..Len(sub.q) : sub.q[i].id = sub.q[j].id => i = j

UntilNextBroadcast(p) == until(next(interval[p].broadcaster), now)

(* C13 as stated: when a datagram causes a first-time insertion, the      *)
(* reply is sent iff the time until the next scheduled broadcast is       *)
(* 100 ms or more (stated for a broadcaster that is asleep until that     *)
(* broadcast); the insertion and its notification happen in both cases.   *)
C13_Original ==
    [][\A p \in built :
        (last'.op = "notify" /\ last'.p = p /\ bstat[p] = "running" /\ bpc[p] = "sleep") =>
            /\ Replies_(p) # {} <=> UntilNextBroadcast(p) >= Soon
            /\ last'.k \in DOMAIN map[p]
            /\ last'.k \in emits'[p]]_vars

\* a call of found_everyone, of found_majority was made
Everyone == waiter.pc # "idle" /\ waiter.kind = "found_everyone"
Majority == waiter.pc # "idle" /\ waiter.kind = "found_majority"
Everyone_ == waiter'.pc # "idle" /\ waiter'.kind = "found_everyone"
Majority_ == waiter'.pc # "idle" /\ waiter'.kind = "found_majority"
\* the step being taken makes the call return
Completes_ == waiter.pc # "done" /\ waiter'.pc = "done"

(* C14: found_everyone(chart, n) returns only at a read of size() that    *)
(* gives n or more: every value it read before was below n, and it does   *)
(* not return while it has read no such value.  For n <= 1 it returns at  *)
(* its first read, without waiting for a notification.                    *)
C14_FoundEveryoneWaitsForSize ==
    /\ [](Everyone =>
            /\ waiter.pc = "done" => waiter.read >= waiter.full_size
            /\ waiter.pc = "recv" => waiter.read >= 1 /\ waiter.read < waiter.full_size
            /\ waiter.full_size <= 1 =>
                waiter.pc \in {"check", "done"} /\ waiter.waits = 0)
    /\ [][(Everyone_ /\ Completes_) =>
            /\ waiter.pc = "check"
            /\ waiter'.read = size(waiter.p)
            /\ waiter'.read >= waiter.full_size
            /\ waiter.read # 0 => waiter.read < waiter.full_size]_vars

\* found_everyone returned after it had waited for notifications
C14_Witness ==
    /\ Everyone
    /\ waiter.pc = "done"
    /\ waiter.waits = 1
    /\ waiter.full_size >= 2
    /\ waiter.read = waiter.full_size

(* C15 as stated: once found_everyone was called, if the size of the      *)
(* chart comes to be full_size or more and stays so, the call eventually  *)
(* returns, however the steps of the receiver and of the call interleave. *)
C15_Original ==
    <>[](Everyone /\ size(waiter.p) >= waiter.full_size) => <>(waiter.pc = "done")

\* m is the least integer that is half of n or more
IsCeilHalf(m, n) == 2 * m >= n /\ 2 * (m - 1) < n

C17_Original ==
    (Majority /\ waiter.pc = "done" /\ waiter.full_size >= 1) =>
        2 * waiter.read > waiter.full_size

\* the index the last call was made with, of the call being made
ReturnedIdx == CHOOSE i \in {x[1] : x \in last.v} : TRUE
ReturnedIdx_ == CHOOSE i \in {x[1] : x \in last'.v} : TRUE

\* what a lookup of id on chart p is to give, from the entry of id
Expected(op, p, IDX, id) ==
    IF id \notin DOMAIN map[p] THEN None
    ELSE LET e == map[p][id] IN
         IF op = "get_addr" THEN Some(SocketAddr(e.ip, e.msg[1]))
         ELSE IF op = "get_nth_addr" THEN Some(SocketAddr(e.ip, e.msg[IDX]))
         ELSE Some([i \in 1..N |-> SocketAddr(e.ip, e.msg[i])])

(* C21: for every id other than the chart's own, get_addr, get_addr_list  *)
(* and get_nth_addr<IDX> give None iff the id is not in the map, and      *)
(* otherwise the address(es) made of the entry's ip and its port (all N   *)
(* ports in order, or the port at IDX); a call leaves the map, the        *)
(* subscriptions and the socket as they were.                             *)
C21_LookupsReadTheEntry ==
    /\ [](\A p \in built : \A id \in Ids \ {our_id(p)} :
            /\ get_addr(p, id) = Expected("get_addr", p, 0, id)
            /\ get_addr_list(p, id) = Expected("get_addr_list", p, 0, id)
            /\ \A IDX \in 1..N :
                    get_nth_addr(p, IDX, id) = Expected("get_nth_addr", p, IDX, id)
            /\ get_addr_list(p, id) = None <=> id \notin DOMAIN map[p]
            /\ get_addr(p, id) = None <=> id \notin DOMAIN map[p]
            /\ \A IDX \in 1..N : get_nth_addr(p, IDX, id) = None <=> id \notin DOMAIN map[p])
    /\ [][(last'.op \in Lookups /\ last'.k # our_id(last'.p)) =>
            /\ Returned_ = Expected(last'.op, last'.p, ReturnedIdx_, last'.k)
            /\ map' = map
            /\ subs' = subs
            /\ net' = net
            /\ out' = {}]_vars

\* get_nth_addr<2> of a charted id gave the second port of its entry, which
\* is not the first
C21_Witness ==
    /\ last.op = "get_nth_addr"
    /\ ReturnedIdx = N
    /\ last.k \in DOMAIN map[last.p]
    /\ map[last.p][last.k].msg[N] # map[last.p][last.k].msg[1]
    /\ Returned = Some(SocketAddr(map[last.p][last.k].ip, map[last.p][last.k].msg[N]))

\* the ids a view has an element for
ViewIds(view) == {x[1] : x \in view}

\* a view has one element per charted id and none for the chart itself
OnePerId(p, view) ==
    /\ ViewIds(view) = DOMAIN map[p]
    /\ Cardinality(view) = Cardinality(DOMAIN map[p])
    /\ our_id(p) \notin ViewIds(view)

Views == {"addr_vec", "addr_lists_vec", "nth_addr_vec"}

(* C22: addr_vec(), addr_lists_vec() and nth_addr_vec<IDX>() give, as a   *)
(* set, exactly one element per id in the map at the instant of the call  *)
(* and none for the chart's own id: (id, ip:port), (id, [ip:port_0 ..     *)
(* ip:port_{N-1}]) and (id, ip:port_IDX), from the entry of that id.  A   *)
(* call returns that set and changes nothing.                             *)
C22_ViewsListTheMap ==
    /\ [](\A p \in built :
            /\ OnePerId(p, addr_vec(p))
            /\ OnePerId(p, addr_lists_vec(p))
            /\ \A x \in addr_vec(p) : Some(x[2]) = Expected("get_addr", p, 0, x[1])
            /\ \A x \in addr_lists_vec(p) : Some(x[2]) = Expected("get_addr_list", p, 0, x[1])
            /\ \A IDX \in 1..N :
                /\ OnePerId(p, nth_addr_vec(p, IDX))
                /\ \A x \in nth_addr_vec(p, IDX) :
                        Some(x[2]) = Expected("get_nth_addr", p, IDX, x[1]))
    /\ [][last'.op \in Views =>
            /\ OnePerId(last'.p, Returned_)
            /\ \A x \in Returned_ :
                    Some(x[2]) = Expected(IF last'.op = "addr_vec" THEN "get_addr"
                                          ELSE IF last'.op = "nth_addr_vec" THEN "get_nth_addr"
                                          ELSE "get_addr_list",
                                          last'.p, ReturnedIdx_, x[1])
            /\ map' = map
            /\ subs' = subs]_vars

\* addr_lists_vec() of a chart that has charted two instances gave two
\* elements
C22_Witness ==
    /\ last.op = "addr_lists_vec"
    /\ Cardinality(DOMAIN map[last.p]) = 2
    /\ Cardinality(Returned) = 2
    /\ \A x \in Returned : x[2][N].port = map[last.p][x[1]].msg[N]

\* the step being taken is a recv of subscription s of chart p
Recv_(p, s) == last'.op = "recv" /\ last'.p = p /\ last'.k = s
\* ... the send of a notification by chart p
Notify_(p) == last'.op = "notify" /\ last'.p = p
\* the value a recv gave is Lagged
IsLagged(v) == \E x \in v : "lagged" \in DOMAIN x

\* the notification insert has committed and is about to send
Pending(p) == CHOOSE e \in pend[p] : TRUE
Sending(p) == [id |-> Pending(p).id, entry |-> Pending(p).entry]

(* C23: the sender of notifications never waits for a subscriber and      *)
(* counts "no subscribers" as success: whenever insert has updated the    *)
(* map and is about to send, the send can be done, and it ends the insert *)
(* whatever the subscriptions are (none, or full queues).  A subscriber   *)
(* that loses a value is told so: the send that overwrites a value of a   *)
(* subscription marks it lagged, its next recv gives Lagged and takes no  *)
(* value, and after that recv gives the values still held, oldest first.  *)
C23_SenderNeverBlocks ==
    /\ [](\A p \in built :
            /\ (rstat[p] \in {"running", "aborting"} /\ rpc[p] = "send") =>
                    pend[p] # {} /\ ENABLED SendNotify(p, TRUE)
            /\ \A s \in DOMAIN subs[p] :
                    /\ Len(subs[p][s].q) <= ChanCap
                    /\ subs[p][s].lagged > 0 => Len(subs[p][s].q) = ChanCap
                    /\ (subs[p][s].lagged > 0 \/ subs[p][s].q # <<>>) => ENABLED NotifyRecv(p, s))
    /\ [][\A p \in built :
            /\ Notify_(p) =>
                /\ rpc'[p] = "recv_from" /\ pend'[p] = {}
                /\ DOMAIN subs'[p] = DOMAIN subs[p]
                /\ \A s \in DOMAIN subs[p] :
                        /\ subs'[p][s].q[Len(subs'[p][s].q)] = Sending(p)
                        /\ Len(subs[p][s].q) = ChanCap => subs'[p][s].lagged > 0
            /\ \A s \in DOMAIN subs[p] :
                Recv_(p, s) =>
                    IF subs[p][s].lagged > 0
                    THEN /\ IsLagged(last'.v)
                         /\ subs'[p][s].q = subs[p][s].q
                         /\ subs'[p][s].lagged = 0
                    ELSE /\ ~IsLagged(last'.v)
                         /\ \A x \in last'.v : x.id = Head(subs[p][s].q).id
                         /\ subs'[p][s].q = Tail(subs[p][s].q)]_vars

\* a subscriber that fell behind was just told so, and the channel holds
\* the newest values for it
C23_Witness ==
    /\ last.op = "recv"
    /\ IsLagged(last.v)
    /\ last.k \in DOMAIN subs[last.p]
    /\ subs[last.p][last.k].lagged = 0
    /\ Len(subs[last.p][last.k].q) = ChanCap

(* C24 as stated, its second half: recv gives Lagged only when more than  *)
(* 256 notifications were sent to the subscription since its last         *)
(* successful recv (since it subscribed, when it has received none).      *)
C24_Original ==
    [][\A p \in built : \A s \in DOMAIN subs[p] :
            (Recv_(p, s) /\ IsLagged(last'.v)) => subs[p][s].since > u8_MAX + 1]_vars

(* C24: the channel holds 256 (u8::MAX + 1) notifications per subscriber: *)
(* a send to a subscription that has fewer than 256 unreceived values     *)
(* queues the value and loses none, so that up to 256 unreceived values   *)
(* are all received, oldest first; a subscription is marked lagged only   *)
(* by a send that finds 256 values unreceived, and recv gives Lagged only *)
(* to a subscription so marked.                                           *)
C24_Buffers256 ==
    /\ [](\A p \in built : \A s \in DOMAIN subs[p] : Len(subs[p][s].q) <= u8_MAX + 1)
    /\ [][\A p \in built : \A s \in (DOMAIN subs[p]) \cap (DOMAIN subs'[p]) :
            /\ (Notify_(p) /\ Len(subs[p][s].q) < u8_MAX + 1) =>
                    /\ subs'[p][s].q = Append(subs[p][s].q, Sending(p))
                    /\ subs'[p][s].lagged = subs[p][s].lagged
            /\ subs'[p][s].lagged > subs[p][s].lagged =>
                    Notify_(p) /\ Len(subs[p][s].q) = u8_MAX + 1
            /\ (Recv_(p, s) /\ IsLagged(last'.v)) => subs[p][s].lagged > 0
            /\ (Recv_(p, s) /\ subs[p][s].lagged = 0) =>
                    /\ \A x \in last'.v : x.id = Head(subs[p][s].q).id
                    /\ subs'[p][s].q = Tail(subs[p][s].q)]_vars

\* 256 notifications were sent to a subscription since it subscribed or
\* last received, and it holds them all
C24_Witness ==
    \E p \in built : \E s \in DOMAIN subs[p] :
        /\ subs[p][s].since = u8_MAX + 1
        /\ Len(subs[p][s].q) = u8_MAX + 1
        /\ subs[p][s].lagged = 0
        /\ last.op = "notify"

(* C25: every subscriber observes the notifications in the order in which *)
(* the first-time insertions were committed to the map.  A first-time     *)
(* insertion is committed only when the notification of every earlier one *)
(* has been sent; a send puts the notification of the insertion committed *)
(* last behind everything queued for every subscriber; and recv gives the *)
(* oldest value queued.  So a notification of b is never received before  *)
(* that of a when a was committed before b.                               *)
C25_NotificationsInCommitOrder ==
    /\ [](\A p \in built : Cardinality(pend[p]) <= 1)
    /\ [][\A p \in built :
            /\ (FirstTime_ /\ last'.p = p) =>
                    /\ pend[p] = {}
                    /\ pend'[p] = {[id |-> ReceivedMsg_.id, entry |-> ReceivedEntry_,
                                    addr |-> last'.d.src]}
                    /\ subs'[p] = subs[p]
            /\ Notify_(p) =>
                    /\ pend'[p] = {}
                    /\ \A s \in DOMAIN subs[p] :
                        \E k \in 0..1 :
                            subs'[p][s].q = SubSeq(subs[p][s].q, 1 + k, Len(subs[p][s].q))
                                            \o <<Sending(p)>>
            /\ \A s \in DOMAIN subs[p] :
                    (Recv_(p, s) /\ ~IsLagged(last'.v)) =>
                        /\ \A x \in last'.v :
                            x = [id |-> Head(subs[p][s].q).id,
                                 ip |-> Head(subs[p][s].q).entry.ip,
                                 msg |-> Head(subs[p][s].q).entry.msg]
                        /\ subs'[p][s].q = Tail(subs[p][s].q)
            /\ \A s \in (DOMAIN subs[p]) \cap (DOMAIN subs'[p]) :
                    (~Notify_(p) /\ ~Recv_(p, s)) => subs'[p][s].q = subs[p][s].q]_vars

\* a subscriber has received the notification of one id while that of
\* another id, committed later, is the next it will receive
C25_Witness ==
    /\ last.op = "recv"
    /\ ~IsLagged(last.v)
    /\ last.k \in DOMAIN subs[last.p]
    /\ subs[last.p][last.k].q # <<>>
    /\ \A x \in last.v : x.id # Head(subs[last.p][last.k].q).id

\* the step being taken is forget(k) on chart p
Forget_(p, k) == last'.op = "forget" /\ last'.p = p /\ last'.k = k

(* C26: forget(k) removes at most the entry of k: after it k is not in    *)
(* the map, every other entry is as it was, no notification is sent and   *)
(* no datagram, and the receiver is where it was; when k is not in the    *)
(* map (never discovered, forgotten, or the chart's own id) the map is    *)
(* unchanged as well, so a second forget(k) changes nothing.              *)
C26_ForgetRemovesOnlyK ==
    /\ [](\A p \in built : \A k \in Ids :
            /\ map_remove(map_remove(map[p], k), k) = map_remove(map[p], k)
            /\ k \notin DOMAIN map[p] => map_remove(map[p], k) = map[p]
            /\ map_remove(map[p], our_id(p)) = map[p])
    /\ [][\A p \in built : \A k \in Ids :
            Forget_(p, k) =>
                /\ DOMAIN map'[p] = (DOMAIN map[p]) \ {k}
                /\ \A j \in DOMAIN map'[p] : map'[p][j] = map[p][j]
                /\ k \notin DOMAIN map[p] => map' = map
                /\ subs' = subs
                /\ net' = net
                /\ out' = {}
                /\ pend' = pend /\ rpc' = rpc /\ rstat' = rstat /\ bstat' = bstat
                /\ (last.op = "forget" /\ last.p = p /\ last.k = k) =>
                        /\ map' = map
                        /\ emits' = emits
                        /\ last' = last]_vars

\* forget(k) was called on a chart with two entries and a subscriber, k
\* being one of them: the other entry is there
C26_Witness ==
    /\ last.op = "forget"
    /\ \E e \in pend[last.p] : e.id = last.k
    /\ last.k \notin DOMAIN map[last.p]
    /\ DOMAIN map[last.p] # {}
    /\ DOMAIN subs[last.p] # {}

\* the steps open_socket is to run for a builder, in order
ExpectedSteps(local_discovery) ==
    SelectSeq(Steps, LAMBDA kind : kind # "SetReuse" \/ local_discovery)

\* a is b or a beginning of b
IsPrefix(a, b) == Len(a) <= Len(b) /\ \A i \in 1..Len(a) : a[i] = b[i]

\* open_socket was called and has not been forgotten by a new builder
Opening == sock.pc # "idle"
IsErr(r) == r[1] = "Err"
IsOk(r) == r[1] = "Ok"

(* C27: building a chart runs the socket steps in the order create,       *)
(* reuse-port (if local discovery), broadcast, multicast loop, TTL, bind, *)
(* join multicast, non-blocking, convert: the steps done are always a     *)
(* beginning of that list and the step to run is the next of it.  The     *)
(* first step that fails ends the construction with the Error of that     *)
(* step, a different one for each step, and no chart is returned; the     *)
(* Error of a failing bind is Bind with the discovery port of the         *)
(* builder.  A chart is returned only when every step was done.           *)
C27_StepsInOrderFirstFailureEnds ==
    /\ [](\A i, j \in 1..Len(Steps) :
            StepError(Steps[i], DEFAULT_PORT) = StepError(Steps[j], DEFAULT_PORT) => i = j)
    /\ [](Opening =>
            LET todo == ExpectedSteps(builder.local) IN
            /\ builder.st = "consumed"
            /\ IsPrefix(sock.done, todo)
            /\ sock.pc \in StepNames =>
                    /\ sock.pc = todo[Len(sock.done) + 1]
                    /\ result = None
            /\ sock.pc = "failed" =>
                    /\ Len(sock.done) < Len(todo)
                    /\ result = IF todo[Len(sock.done) + 1] = "Bind"
                                 THEN <<"Err", "Bind", builder.discovery_port>>
                                 ELSE <<"Err", todo[Len(sock.done) + 1]>>
            /\ sock.pc = "done" =>
                    /\ sock.done = todo
                    /\ result = Ok(builder.discovery_port)
                    /\ built # {})
    /\ [][/\ built' # built => sock'.pc = "done" /\ IsOk(result')
          /\ (sock.pc \in StepNames /\ sock'.pc = "failed") =>
                /\ built' = built
                /\ host' = host
                /\ sock'.done = sock.done
                /\ IsErr(result') /\ result'[2] = sock.pc
          /\ (sock.pc \in StepNames /\ sock'.pc # "failed") =>
                sock'.done = Append(sock.done, sock.pc)]_vars

\* a build on another port than the default ended at its bind, with Bind
\* and that port, after the five steps before the bind
C27_Witness ==
    /\ sock.pc = "failed"
    /\ result = <<"Err", "Bind", DEFAULT_PORT + 1>>
    /\ sock.done = <<"Construct", "SetReuse", "SetBroadcast", "SetMulticast", "SetTTL">>

\* another socket is bound to the discovery port of the builder
PortTaken == \E o \in host : o.port = builder.discovery_port
\* kind was done on the socket
Did(kind) == \E i \in 1..Len(sock.done) : sock.done[i] = kind

(* C28: SO_REUSEPORT is set on the socket iff local discovery is enabled, *)
(* and then before the bind: when the bind is run, and ever after, the    *)
(* option is set iff the builder has local discovery on.  With local      *)
(* discovery disabled, the bind on a discovery port that another socket   *)
(* is bound to fails with Bind and that port, and no chart is returned.   *)
C28_ReusePortIffLocal ==
    /\ [](Opening =>
            /\ HasReuse(sock) => builder.local
            /\ (sock.pc = "Bind" \/ Did("Bind") \/ Did("SetBroadcast")) =>
                    (HasReuse(sock) <=> builder.local)
            /\ (Did("Bind") /\ builder.local) =>
                    \E i, j \in 1..Len(sock.done) :
                        i < j /\ sock.done[i] = "SetReuse" /\ sock.done[j] = "Bind")
    /\ [][(sock.pc = "Bind" /\ ~builder.local /\ PortTaken /\ sock' # sock) =>
            /\ result' = <<"Err", "Bind", builder.discovery_port>>
            /\ sock'.pc = "failed"
            /\ built' = built]_vars

\* a build without local discovery failed at its bind on the default port,
\* which a socket that has SO_REUSEPORT set is bound to
C28_Witness ==
    /\ sock.pc = "failed"
    /\ result = <<"Err", "Bind", DEFAULT_PORT>>
    /\ ~builder.local
    /\ host = {[port |-> DEFAULT_PORT, reuse |-> TRUE]}

(* C29: with_rampdown(min, max, rampdown) with min > max panics and       *)
(* leaves no builder: a builder never holds parameters with min > max.    *)
(* A build with discovery port 0 panics before a socket is created: it    *)
(* gives a panic, no Error, and open_socket has run no step.              *)
C29_ProgrammerErrorsPanic ==
    /\ [](builder.st \in {"building", "consumed"} =>
            builder.rampdown.min <= builder.rampdown.max)
    /\ [](builder.st = "panicked" => result = Panic /\ DOMAIN builder = {"st"})
    /\ []((builder.st = "consumed" /\ builder.discovery_port = 0) =>
            /\ result = Panic
            /\ sock = NoSocket)
    /\ [](Opening => builder.discovery_port # 0)
    /\ [][(builder.st = "building" /\ builder'.st = "consumed") =>
            IF builder.discovery_port = 0
            THEN result' = Panic /\ sock' = sock /\ sock.pc = "idle" /\ built' = built
            ELSE result' = result /\ sock'.pc = Steps[1] /\ sock'.done = <<>>]_vars

\* finish was called on a builder with discovery port 0 and local
\* discovery
C29_Witness ==
    /\ builder.st = "consumed"
    /\ builder.discovery_port = 0
    /\ builder.local
    /\ result = Panic
    /\ sock = NoSocket

(* C30 as stated: maintain ends only if a child task was cancelled, and   *)
(* then it returns normally; in every other run it never completes.       *)
C30_Original ==
    \A p \in built :
        maintain[p] \in Ended =>
            /\ maintain[p] = "returned"
            /\ rstat[p] = "cancelled" \/ bstat[p] = "cancelled"

(* C30 as amended: maintain returns normally only when both child tasks   *)
(* were cancelled: it accepts the cancellation of the receiver, then that *)
(* of the broadcaster.  It ends with a panic when the receiver panicked,  *)
(* or when the broadcaster panicked after the receiver was cancelled.  In *)
(* every other run it never completes: it ends only at f1.await with a    *)
(* receiver that panicked or at f2.await with a broadcaster that has      *)
(* ended, and once it has ended it stays so.                              *)
C30_MaintainEndsWithItsTasks ==
    /\ [](\A p \in built :
            /\ maintain[p] = "returned" =>
                    rstat[p] = "cancelled" /\ bstat[p] = "cancelled"
            /\ maintain[p] = "panicked" =>
                    \/ rstat[p] = "panicked"
                    \/ rstat[p] = "cancelled" /\ bstat[p] = "panicked"
            /\ maintain[p] = "await_f2" => rstat[p] = "cancelled"
            /\ (rstat[p] \in {"unspawned", "running", "aborting"}) =>
                    maintain[p] \notin Ended)
    /\ [][\A p \in built :
            /\ maintain[p] \in Ended => maintain'[p] = maintain[p]
            /\ (maintain[p] \notin Ended /\ maintain'[p] \in Ended) =>
                    \/ /\ maintain[p] = "await_f1" /\ rstat[p] = "panicked"
                       /\ maintain'[p] = "panicked"
                    \/ /\ maintain[p] = "await_f2" /\ bstat[p] = "cancelled"
                       /\ maintain'[p] = "returned"
                    \/ /\ maintain[p] = "await_f2" /\ bstat[p] = "panicked"
                       /\ maintain'[p] = "panicked"]_vars

\* both tasks were cancelled under maintain, which has returned
C30_Witness ==
    \E p \in built :
        /\ maintain[p] = "returned"
        /\ rstat[p] = "cancelled"
        /\ bstat[p] = "cancelled"
        /\ last.op = "f2"

\* the step being taken is the broadcaster's send, its sleep
Broadcast_(p) == last'.op = "broadcast" /\ last'.p = p
Sleep_(p) == last'.op = "sleep" /\ last'.p = p

\* the datagram the broadcaster of chart p has to hand to its socket
Cast(p) ==
    Sent(p, SocketAddr(multiaddr, builder.discovery_port),
         <<header[p], service_id[p]>> \o msg[p])

(* C31: the broadcaster starts at its send: its first announcement goes   *)
(* out before any sleep_till_next, and from then on a send and a          *)
(* sleep_till_next alternate strictly.  Every announcement goes to        *)
(* (224.0.0.251, discovery_port) where discovery_port is the port the     *)
(* chart was built with, and carries the header, id and payload of the    *)
(* chart.                                                                  *)
C31_BroadcastsAlternateOnBuiltPort ==
    /\ [](\A p \in Peers :
            bstat[p] = "unspawned" =>
                bpc[p] = "broadcast" /\ interval[p].broadcaster = Interval_from(0))
    /\ [][\A p \in Peers :
            /\ (last'.op = "start" /\ last'.p = p) =>
                    bpc'[p] = "broadcast" /\ interval'[p].broadcaster = Interval_from(0)
            /\ Broadcast_(p) <=> (bpc[p] = "broadcast" /\ bpc'[p] = "sleep")
            /\ Sleep_(p) <=> (bpc[p] = "sleep" /\ bpc'[p] = "broadcast")
            /\ Broadcast_(p) =>
                    /\ out' = {Cast(p)}
                    /\ interval'[p] = interval[p]
            /\ ~Broadcast_(p) => \A o \in out' : o.from # p \/ o.dst.ip # multiaddr
            /\ Sleep_(p) =>
                    /\ out' = {}
                    /\ interval'[p].broadcaster # interval[p].broadcaster]_vars

\* a chart built on another port than the default has announced itself,
\* slept and announced itself again
C31_Witness ==
    \E p \in built :
        /\ builder.discovery_port # DEFAULT_PORT
        /\ last.op = "broadcast"
        /\ last.p = p
        /\ out = {Cast(p)}
        /\ interval[p].broadcaster # Interval_from(0)

\* the time of the previous fire of an interval since its start
SinceStart(iv) == iv.prev - iv.start

(* C32: for a chart built with min <= max, the period after a previous    *)
(* fire at time t since the start is max - (max - min) * clamp(t /        *)
(* rampdown, 0, 1) (to the tick); it lies between min and max and is no   *)
(* longer than the period at any earlier time; the next fire instant is   *)
(* the previous fire plus that period, and successive next fire instants  *)
(* never decrease.                                                        *)
C32_PeriodRampsWithinBounds ==
    /\ [](\A p \in built :
            LET iv == interval[p].broadcaster
                t == SinceStart(iv)
                fall == Params.max - period(t)
                ramp == (Params.max - Params.min) * clamp(t, 0, Params.rampdown)
            IN  /\ Params.min <= Params.max
                /\ fall * Params.rampdown <= ramp
                /\ ramp < (fall + 1) * Params.rampdown
                /\ Params.min <= period(t)
                /\ period(t) <= Params.max
                /\ \A u \in 0..t : period(u) >= period(t)
                /\ next(iv) = iv.prev + period(t)
                /\ next(iv) >= iv.prev)
    /\ [][\A p \in built :
            LET iv == interval[p].broadcaster
                iw == interval'[p].broadcaster
            IN  iw # iv =>
                    /\ iw.start = iv.start
                    /\ iw.prev = next(iv)
                    /\ next(iw) >= next(iv)
                    /\ period(SinceStart(iw)) <= period(SinceStart(iv))]_vars

\* a chart with min < max whose broadcaster fired after the rampdown was
\* over: its period has come down to min
C32_Witness ==
    \E p \in built :
        /\ Params.min < Params.max
        /\ SinceStart(interval[p].broadcaster) > Params.rampdown
        /\ period(SinceStart(interval[p].broadcaster)) = Params.min
        /\ last.op = "sleep"

\* the step being taken is one of the receiver of chart p: a datagram is
\* processed, or the insertion is notified and the reply guard evaluated
Receiver_(p) == last'.op \in {"receive", "notify"} /\ last'.p = p

(* C33: the state of the interval is advanced by sleep_till_next of the   *)
(* broadcaster and by nothing else: a step of the receiver, its reply     *)
(* guard (next() then until()) included, leaves both copies of the        *)
(* interval and so the next fire instant as they were, however many       *)
(* datagrams it receives between two broadcasts.  until() is never        *)
(* negative: it is zero once the instant has passed, and the distance to  *)
(* it before.                                                             *)
C33_OnlyTheBroadcasterAdvances ==
    /\ [](\A p \in built : \A t \in {"receiver", "broadcaster"} :
            LET instant == next(interval[p][t]) IN
                /\ until(instant, now) >= 0
                /\ now >= instant => until(instant, now) = 0
                /\ now < instant => now + until(instant, now) = instant)
    /\ [][\A p \in built :
            /\ Receiver_(p) =>
                    /\ interval' = interval
                    /\ next(interval'[p].broadcaster) = next(interval[p].broadcaster)
            /\ interval'[p] # interval[p] =>
                    /\ Sleep_(p)
                    /\ interval'[p].broadcaster = advance(interval[p].broadcaster)
                    /\ interval'[p].receiver = interval[p].receiver]_vars

\* the receiver has evaluated its reply guard between two broadcasts,
\* after the instant it read had passed
C33_Witness ==
    \E p \in built :
        /\ last.op = "notify"
        /\ last.p = p
        /\ bpc[p] = "sleep"
        /\ interval[p].broadcaster # Interval_from(0)
        /\ now > next(interval[p].receiver)
        /\ Cardinality(DOMAIN map[p]) >= 2

\* the caller has subscribed; it has taken its snapshot too
Subscribed == waiter.pc \in {"subscribed", "collect"}
Collecting == waiter.pc = "collect"
\* the ids of a set of (id, address) pairs
IdsOf(S) == {x[1] : x \in S}
\* the ids in the notifications queued for the caller, and the id of the
\* insertion that is committed and not sent yet
QueuedFor == {subs[waiter.p][waiter.sub].q[i].id : i \in 1..Len(subs[waiter.p][waiter.sub].q)}
Unsent == {e.id : e \in pend[waiter.p]}
\* the caller's subscription has lost a notification
HasLagged == waiter.lagged \/ subs[waiter.p][waiter.sub].lagged > 0

(* C34 as stated: a caller that subscribes and then takes a snapshot      *)
(* misses no peer: every id in the map is in the snapshot or is delivered *)
(* to the subscription afterwards (it was received, is queued for the     *)
(* caller or is about to be sent).                                        *)
C34_Original ==
    Collecting =>
        \A k \in DOMAIN map[waiter.p] :
            k \in IdsOf(waiter.discoverd) \cup IdsOf(waiter.got) \cup QueuedFor \cup Unsent

(* C34 as amended: with no forget, every id in the map is in the snapshot *)
(* or received by the caller, queued for it or about to be sent (possibly *)
(* in the snapshot as well), unless the subscription has lagged, i.e. the *)
(* channel overwrote notifications the caller had not received.  What     *)
(* was sent before the subscription existed is in the snapshot and never  *)
(* reaches the subscription, and what the caller has collected is charted *)
(* under the address it was given.                                        *)
C34_SubscribeThenSnapshot ==
    /\ (Collecting /\ ~HasLagged) =>
            \A k \in DOMAIN map[waiter.p] :
                k \in IdsOf(waiter.discoverd) \cup IdsOf(waiter.got) \cup QueuedFor \cup Unsent
    /\ Subscribed =>
            /\ waiter.before \cap (IdsOf(waiter.got) \cup QueuedFor \cup Unsent) = {}
            /\ waiter.got \subseteq addr_vec(waiter.p)
    /\ Collecting =>
            /\ waiter.before \subseteq IdsOf(waiter.discoverd)
            /\ waiter.discoverd \subseteq addr_vec(waiter.p)
    /\ (Subscribed /\ HasLagged) => Cardinality(DOMAIN map[waiter.p]) > ChanCap

\* one peer was sent before the subscription and is in the snapshot only,
\* one was inserted before the snapshot and sent after it and came both
\* ways, one was inserted after the snapshot and came by the subscription
C34_Witness ==
    /\ Collecting
    /\ ~HasLagged
    /\ waiter.before # {}
    /\ IdsOf(waiter.discoverd) \cap IdsOf(waiter.got) # {}
    /\ IdsOf(waiter.got) \ IdsOf(waiter.discoverd) # {}

\* the steps that are, or end at, a suspension point of the receiver
\* (recv_from, send_to), a send on the notification channel, a suspension
\* point of the broadcaster (send_to, sleep_till_next) or of a subscriber
Awaits == {"recv_from", "notify", "broadcast", "sleep", "recv"}

(* C35: the lock of the map is held only inside insert and inside the     *)
(* user's forget, size, lookup or snapshot: never by the broadcaster,     *)
(* never by the receiver at recv_from, at the send on the notification    *)
(* channel or at send_to, and no step that suspends is taken by the       *)
(* thread that holds it.  So nothing deadlocks on it: whoever holds the   *)
(* lock can always go on and release it, and a thread that asks for it    *)
(* while it is free gets it.                                              *)
C35_LockHeldOnlyInSyncSections ==
    /\ []((mutex = "receiver") => \E p \in built : rpc[p] = "lock")
    /\ []((mutex = "user") => (waiter.pc = "lock" /\ waiter.op \in UserOps))
    /\ [](\A p \in built : rpc[p] \in {"recv_from", "send"} => mutex # "receiver")
    /\ []((mutex = "receiver") => \E p \in built : ENABLED Insert(p))
    /\ []((mutex = "user") => ENABLED UserLocked)
    /\ [](\A t \in Threads : (AtLock(t) /\ mutex = "free") => ENABLED MapLock(t))
    /\ [][/\ last'.op \in {"recv_from", "notify"} => (mutex # "receiver" /\ mutex' # "receiver")
          /\ last'.op \in Awaits => mutex' = mutex
          /\ mutex' # mutex =>
                \/ mutex = "free" /\ last'.op = "lock"
                \/ mutex = "receiver" /\ mutex' = "free" /\ last'.op = "insert"
                \/ mutex = "user" /\ mutex' = "free" /\ last'.op \in UserOps]_vars

\* the receiver is at the lock of insert while the user's forget holds it,
\* and a subscriber has a notification waiting
C35_Witness ==
    /\ mutex = "user"
    /\ waiter.pc = "lock"
    /\ waiter.op = "forget"
    /\ \E p \in built :
            /\ rpc[p] = "lock"
            /\ waiter.k \in DOMAIN map[p]
            /\ \E s \in DOMAIN subs[p] : subs[p][s].q # <<>>

\* a chart sends at most one reply per first-time insertion: a step sends
\* at most one reply, and it is the step that notifies an id that was not
\* notified before; without forget the ids a chart has notified only grow
\* and are ids of the other peers, so it sends at most NPeers - 1 replies
OneReplyPerInsertion_ ==
    \A p \in built :
        /\ emits[p] \subseteq emits'[p]
        /\ emits'[p] \subseteq Others(p)
        /\ Cardinality(emits'[p]) <= NPeers - 1
        /\ Replies_(p) # {} =>
                /\ Cardinality(Replies_(p)) = 1
                /\ last'.op = "notify"
                /\ last'.k \notin emits[p]
                /\ last'.k \in emits'[p]
\* no chart owes the notification and reply of an insertion
NoneOwed == \A p \in built : pend[p] = {}

(* C36 as stated: a chart sends at most one reply per first-time          *)
(* insertion, so with NPeers peers and no forget at most NPeers - 1       *)
(* replies in total, and once every peer knows every other peer no reply  *)
(* is ever sent again.                                                    *)
C36_Original ==
    [][/\ OneReplyPerInsertion_
       /\ FoundEveryone => \A p \in built : Replies_(p) = {}]_vars

(* C36 as amended: a chart sends at most one reply per first-time         *)
(* insertion, so with NPeers peers and no forget at most NPeers - 1       *)
(* replies in total; once every peer knows every other peer, the only     *)
(* replies still sent are those owed for the last first-time insertions   *)
(* (committed to the map, not yet notified), and when none is owed no     *)
(* reply is ever sent again.                                              *)
C36_RepliesEnd ==
    /\ [][/\ OneReplyPerInsertion_
          /\ FoundEveryone =>
                \A p \in built : Replies_(p) # {} => last'.k \in {e.id : e \in pend[p]}]_vars
    /\ [][(FoundEveryone /\ NoneOwed) =>
                /\ FoundEveryone'
                /\ NoneOwed'
                /\ \A p \in built : Replies_(p) = {}]_vars

\* every peer knows every other, the last reply has just been sent, and
\* it is queued at the socket of a chart that knows its sender already
C36_Witness ==
    /\ FoundEveryone
    /\ NoneOwed
    /\ last.op = "notify"
    /\ \E p \in built : \E o \in RepliedBy(p, out) :
            \E q \in built : q # p /\ Announcement(p) \in net[q] /\ service_id[p] \in DOMAIN map[q]

\* the notification the last recv gave its caller, if it gave one
Notification == CHOOSE v \in last.v : TRUE
GotNotification == last.op = "recv" /\ last.v # {} /\ ~IsLagged(last.v)

(* C37: a notification for k is sent only for an insertion of k that has  *)
(* been committed to the map, and it carries the ip and the payload of    *)
(* the datagram that caused that insertion.  From the commit on, k leaves *)
(* the map only by forget(k): a subscriber that receives the notification *)
(* and then reads the chart finds k unless forget(k) ran in between, and  *)
(* forget(k) can run between the commit and the send, so that the         *)
(* notification is sent for an id that is no longer in the map.           *)
C37_NotifiedAfterCommit ==
    [][\A p \in built :
        /\ (FirstTime_ /\ last'.p = p) =>
                /\ ReceivedMsg_.id \in DOMAIN map'[p]
                /\ map'[p][ReceivedMsg_.id] = ReceivedEntry_
                /\ pend'[p] = {[id |-> ReceivedMsg_.id, entry |-> ReceivedEntry_,
                                addr |-> last'.d.src]}
                /\ NoneNotified_(p)
        /\ (Notify_(p)) =>
                \E e \in pend[p] :
                    /\ last'.k = e.id
                    /\ AllNotified_(p, [id |-> e.id, entry |-> e.entry])
        /\ ~Notify_(p) => NoneNotified_(p)
        /\ \A k \in DOMAIN map[p] :
                k \notin DOMAIN map'[p] => (last'.op = "forget" /\ last'.p = p /\ last'.k = k)
        /\ \A s \in DOMAIN subs[p] : (Recv_(p, s) /\ ~IsLagged(last'.v)) =>
                LET v == Head(subs[p][s].q) IN
                    last'.v = {[id |-> v.id, ip |-> v.entry.ip, msg |-> v.entry.msg]}
       ]_vars

\* a subscriber has received the notification of an id that is in the map
\* with that ip and payload, while another id was notified after a forget
\* had removed it again
C37_Witness ==
    /\ GotNotification
    /\ LET p == last.p
           v == Notification IN
        /\ v.id \in DOMAIN map[p]
        /\ map[p][v.id] = Entry(v.ip, v.msg)
        /\ emits[p] \ DOMAIN map[p] # {}

(* C38: maintain awaits the outcome of the receiver before that of the    *)
(* broadcaster.  A receiver that has failed makes maintain fail at its    *)
(* next poll, whatever the broadcaster does.  A broadcaster that has      *)
(* failed (a send error) is not reported while the receiver runs:         *)
(* maintain stays at f1.await, the receiver goes on receiving and         *)
(* charting, and the chart sends no announcement any more.                *)
C38_ReceiverAwaitedFirst ==
    /\ [](\A p \in built :
            /\ (maintain[p] = "await_f1" /\ rstat[p] = "panicked") => ENABLED MaintainF1(p)
            /\ (bstat[p] = "panicked" /\ rstat[p] \in {"running", "aborting"}) =>
                    /\ maintain[p] \in {"await_f1", "dropped"}
                    /\ ~ENABLED MaintainF1(p)
                    /\ ~ENABLED MaintainF2(p)
            /\ (bstat[p] = "panicked" /\ rstat[p] = "running" /\ rpc[p] = "recv_from") =>
                    \A d \in ForeignAnnouncements : ENABLED ReceiveForeign(p, d)
            /\ maintain[p] = "await_f2" => rstat[p] = "cancelled")
    /\ [][\A p \in built :
            /\ (last'.op = "f1" /\ last'.p = p) =>
                    /\ maintain[p] = "await_f1"
                    /\ rstat[p] \in Finished
                    /\ maintain'[p] = IF rstat[p] = "panicked" THEN "panicked" ELSE "await_f2"
            /\ (maintain[p] = "await_f1" /\ maintain'[p] \in Ended) =>
                    rstat[p] = "panicked" /\ maintain'[p] = "panicked"
            /\ bstat[p] = "panicked" =>
                    /\ bstat'[p] = "panicked"
                    /\ AnnouncedBy(p, out') = {}]_vars

\* the broadcaster has failed, maintain still awaits the receiver, and the
\* receiver has just charted a new instance
C38_Witness ==
    \E p \in built :
        /\ bstat[p] = "panicked"
        /\ rstat[p] = "running"
        /\ maintain[p] = "await_f1"
        /\ last.op = "receive"
        /\ last.p = p
        /\ pend[p] # {}
        /\ DOMAIN map[p] # {}

====
